---- MODULE Spec2Model ----
(***************************************************************************)
(* Message intake and lead-qualification pipeline of the Chable assistant. *)
(*                                                                         *)
(* The FastAPI handlers are `async def` functions that run on one event    *)
(* loop.  Between the debounce call and the end of a handler every call    *)
(* that touches the database, the AI client or Twilio is a blocking call,  *)
(* so each handler below is one atomic action.                             *)
(*                                                                         *)
(* Time is counted in half seconds.  Texts are sequences of tokens: the    *)
(* bodies that were received, joined by the separators " " and "\n".       *)
(***************************************************************************)
EXTENDS Integers, Sequences, FiniteSets, TLC

VARIABLES
    now,             \* time.time(), in half seconds
    message_buffer,  \* utils.message_buffer: sender -> buffer entry
    threads,         \* table threads (rows in insertion order)
    message_logs,    \* table message_logs
    conversations,   \* table conversations
    messages,        \* table messages
    customers,       \* table customer_info
    leads,           \* table qualified_leads
    outbox,          \* what Twilio accepted for delivery
    submits,         \* history: the calls of get_debounced_message and their results
    ops,             \* history: the lead operations that were invoked
    last,            \* history: outcome of the last request
    failures,        \* number of downstream failures so far
    reqs,            \* number of requests and dashboard operations so far
    lasso,           \* Lasso CRM: the properties with an API key, the registrants
    tasks            \* the requests that the event loop accepted, waiting or done

vars == <<now, message_buffer, threads, message_logs, conversations, messages,
          customers, leads, outbox, submits, ops, last, failures, reqs, lasso, tasks>>

-----------------------------------------------------------------------------
(* Bounds of the model *)

MaxTime == 3
MaxRequests == 3
MaxFaults == 1
MaxLeadOps == 3
MaxCalls == 2

-----------------------------------------------------------------------------
(* Values *)

Null == "null"                      \* Python None / SQL NULL
Senders == {"p1", "p2"}

\* utils.py:148  `current_time - last_message_time < 1.5`, in half seconds
DebounceWindow == 3
\* utils.py:150  `len(current_message) <= 10`
ShortFragmentLen == 10
\* utils.py:150  `len(buffer_data['message']) <= 50`
ShortBufferLen == 50

\* main.py:433
FallbackReply == "Lo siento, hubo un problema tecnico. Por favor, intenta de nuevo."
AiReply == "respuesta del asistente"

\* The webhook deliveries the provider can make.  A provider message id
\* belongs to one message: a redelivery repeats sender and body.
Webhooks ==
    { [MessageSid |-> "SM1", From |-> "p1", Body |-> "Hola",  ProfileName |-> "Ana"],
      [MessageSid |-> "SM2", From |-> "p1", Body |-> "como",  ProfileName |-> "Ana"],
      [MessageSid |-> "SM3", From |-> "p1", Body |-> "estas", ProfileName |-> "Ana"] }

Sids == {w.MessageSid : w \in Webhooks}

\* len(body)
BodyLen(b) ==
    CASE b = "Hola" -> 4
      [] b = "como" -> 4
      [] b = "estas" -> 5
      [] b = "precio" -> 6
      [] b = "visita" -> 6
      [] b = "quiero comprar, es urgente" -> 26
      [] OTHER -> 1                  \* a separator

\* The vocabulary of main.py:657-675 that a body contains.
WordsIn(b) ==
    CASE b = "precio" -> {"precio"}
      [] b = "visita" -> {"visita"}
      [] b = "quiero comprar, es urgente" -> {"comprar", "urgente"}
      [] b = "costalegre" -> {"costalegre"}
      [] OTHER -> {}

RECURSIVE TextLen(_)
TextLen(t) == IF t = <<>> THEN 0 ELSE BodyLen(Head(t)) + TextLen(Tail(t))

RECURSIVE Fragments(_)
\* the bodies of a text, separators left out
Fragments(t) ==
    IF t = <<>> THEN <<>>
    ELSE IF Head(t) \in {" ", "\n"} THEN Fragments(Tail(t))
         ELSE <<Head(t)>> \o Fragments(Tail(t))

TextWords(t) == UNION {WordsIn(t[i]) : i \in 1..Len(t)}

-----------------------------------------------------------------------------
(* utils.get_debounced_message *)

FreshBuffer(current_message, message_sid, current_time) ==
    [message |-> current_message, timestamp |-> current_time,
     message_sid |-> message_sid, message_count |-> 1]

CombineMessages(buffered, current_message) ==
    IF TextLen(current_message) <= ShortFragmentLen /\ TextLen(buffered) <= ShortBufferLen
    THEN buffered \o <<" ">> \o current_message
    ELSE buffered \o <<"\n">> \o current_message

\* get_debounced_message as a read and a write that another request comes
\* between: the buffer that is written is the one of a request that saw none
get_debounced_message_unlocked(buffer, whatsapp_number, current_message, message_sid, current_time) ==
    [buffer |-> [s \in DOMAIN buffer \cup {whatsapp_number} |->
                    IF s = whatsapp_number
                    THEN FreshBuffer(current_message, message_sid, current_time)
                    ELSE buffer[s]],
     kind |-> "new",
     text |-> current_message, sid |-> message_sid, should |-> TRUE]

\* get_debounced_message without the test of the window: a buffer that is
\* there is merged into, however old it is
get_debounced_message_nowindow(buffer, whatsapp_number, current_message, message_sid, current_time) ==
    IF whatsapp_number \in DOMAIN buffer
    THEN LET buffer_data == buffer[whatsapp_number]
             combined == CombineMessages(buffer_data.message, current_message) IN
         [buffer |-> [buffer EXCEPT ![whatsapp_number] =
                         [message |-> combined, timestamp |-> current_time,
                          message_sid |-> buffer_data.message_sid,
                          message_count |-> buffer_data.message_count + 1]],
          kind |-> "merged",
          text |-> combined, sid |-> buffer_data.message_sid, should |-> FALSE]
    ELSE [buffer |-> [s \in DOMAIN buffer \cup {whatsapp_number} |->
                         IF s = whatsapp_number
                         THEN FreshBuffer(current_message, message_sid, current_time)
                         ELSE buffer[s]],
          kind |-> "new",
          text |-> current_message, sid |-> message_sid, should |-> TRUE]

\* The result: the new buffer map and the returned triple.
get_debounced_message(buffer, whatsapp_number, current_message, message_sid, current_time) ==
    IF whatsapp_number \in DOMAIN buffer
    THEN LET buffer_data == buffer[whatsapp_number] IN
         IF current_time - buffer_data.timestamp < DebounceWindow
         THEN LET combined == CombineMessages(buffer_data.message, current_message) IN
              [buffer |-> [buffer EXCEPT ![whatsapp_number] =
                              [message |-> combined, timestamp |-> current_time,
                               message_sid |-> buffer_data.message_sid,
                               message_count |-> buffer_data.message_count + 1]],
               kind |-> "merged",
               text |-> combined, sid |-> buffer_data.message_sid, should |-> FALSE]
         ELSE [buffer |-> [buffer EXCEPT ![whatsapp_number] =
                              FreshBuffer(current_message, message_sid, current_time)],
               kind |-> "stale",
               text |-> current_message, sid |-> message_sid, should |-> TRUE]
    ELSE [buffer |-> [s \in DOMAIN buffer \cup {whatsapp_number} |->
                         IF s = whatsapp_number
                         THEN FreshBuffer(current_message, message_sid, current_time)
                         ELSE buffer[s]],
          kind |-> "new",
          text |-> current_message, sid |-> message_sid, should |-> TRUE]

-----------------------------------------------------------------------------
(* Tables.  A table is the sequence of its rows; `.first()` is the first   *)
(* row that matches.                                                        *)

Matching(table, col, value) == {i \in 1..Len(table) : table[i][col] = value}

Min(S) == CHOOSE x \in S : \A y \in S : x <= y

\* A lookup that finds no row, whatever the table holds.
first_never(table, col, value) == 0

\* db.query(T).filter_by(col=value).first(): a row index, 0 for None
first(table, col, value) ==
    IF Matching(table, col, value) = {} THEN 0 ELSE Min(Matching(table, col, value))

\* models.py:152-172, the columns of CustomerInfo (the budget columns, which
\* hold integers, are left out of the rows)
CustomerInfoColumns ==
    {"nombre", "email", "telefono", "fuente", "ciudad_interes", "tipo_propiedad",
     "interes_compra"}

\* models.py:220-268, the columns of QualifiedLead that the pipeline uses
QualifiedLeadColumns ==
    {"customer_info_id", "nombre", "email", "telefono", "fuente", "ciudad_interes",
     "proyecto_interes", "tipo_propiedad", "motivo_interes", "urgencia_compra",
     "metodo_contacto_preferido", "desea_visita", "desea_llamada",
     "desea_informacion", "conversation_summary"}

\* Attributes that the code reads and writes on a lead (main.py:719, 736, 740,
\* crm_integration.py:34, 75, 76) and that QualifiedLead does not declare.
LeadAttributes == {"lead_rating", "crm_injected", "crm_lead_id"}

\* Column(..., default=...) of models.py:163, 225, 251-253
ColumnDefault(col) ==
    CASE col = "fuente" -> "WhatsApp"
      [] col \in {"desea_visita", "desea_llamada", "desea_informacion"} -> FALSE
      [] OTHER -> Null

\* The declarative constructor: a keyword that is no attribute of the class
\* raises TypeError; columns that are not given take their default.
ValidKeywords(kw, columns) == DOMAIN kw \subseteq columns

NewRow(kw, fields) ==
    [c \in fields |-> IF c \in DOMAIN kw THEN kw[c] ELSE ColumnDefault(c)]

NewCustomerInfo(kw) == NewRow(kw, CustomerInfoColumns)
\* A constructor that drops the phone of the lead.
NewQualifiedLead_nophone(kw) ==
    NewRow([k \in DOMAIN kw |-> IF k = "telefono" THEN "" ELSE kw[k]],
           QualifiedLeadColumns \cup LeadAttributes)
NewQualifiedLead(kw) == NewRow(kw, QualifiedLeadColumns \cup LeadAttributes)

\* nullable=False of models.py:160, 162, 222, 224
NotNullOk(row) == row.nombre # Null /\ row.telefono # Null

\* unique=True of models.py:162, 224
UniqueOk(table, row) == first(table, "telefono", row.telefono) = 0

\* unique=True of models.py:119-121, 143 on a nullable column
SidUnique(table, message_sid) ==
    message_sid = Null \/ first(table, "message_sid", message_sid) = 0

\* `not value` of Python for a string or None
Empty(v) == v \in {Null, ""}

-----------------------------------------------------------------------------
(* crm_integration.inject_qualified_lead_to_crm *)

\* The keys of project_mapping and city_mapping (crm_integration.py:108-156)
\* that occur in a value as substrings, for the values of the model.
KeysIn(value) ==
    CASE value = "yucatan" -> {"yucatan"}
      [] value = "costalegre" -> {"costalegre"}
      [] value = "valle_de_guadalupe" -> {"guadalupe", "valle"}
      [] value = "valle de guadalupe" -> {"valle de guadalupe", "guadalupe", "valle"}
      [] value = "merida" -> {"merida"}
      [] value = "residencias" -> {"residencias"}
      [] OTHER -> {}                    \* "mar_de_cortes", "", None, ...

\* crm_integration.py:108-114, in the order of the dictionary
project_mapping ==
    << <<"costalegre", "costalegre">>, <<"residencias", "residencias">>,
       <<"valle de guadalupe", "valle_de_guadalupe">>, <<"yucatan", "yucatan">> >>

\* crm_integration.py:125-156, in the order of the dictionary
city_mapping ==
    << <<"yucatan", "yucatan">>, <<"merida", "yucatan">>,
       <<"costalegre", "costalegre">>, <<"guadalajara", "costalegre">>,
       <<"guadalupe", "valle_de_guadalupe">>, <<"ensenada", "valle_de_guadalupe">>,
       <<"valle", "valle_de_guadalupe">> >>

\* `for name, key in mapping.items(): if name in value: return key`
MappingHits(mapping, value) == {i \in 1..Len(mapping) : mapping[i][1] \in KeysIn(value)}

\* crm_integration.py:92-168 without the default of line 162
_determine_property_from_lead_nodefault(lead) ==
    IF ~Empty(lead.proyecto_interes) /\ MappingHits(project_mapping, lead.proyecto_interes) # {}
    THEN project_mapping[Min(MappingHits(project_mapping, lead.proyecto_interes))][2]
    ELSE IF ~Empty(lead.ciudad_interes) /\ MappingHits(city_mapping, lead.ciudad_interes) # {}
    THEN city_mapping[Min(MappingHits(city_mapping, lead.ciudad_interes))][2]
    ELSE Null

\* crm_integration.py:92-168
_determine_property_from_lead(lead) ==
    IF ~Empty(lead.proyecto_interes) /\ MappingHits(project_mapping, lead.proyecto_interes) # {}
    THEN project_mapping[Min(MappingHits(project_mapping, lead.proyecto_interes))][2]
    ELSE IF ~Empty(lead.ciudad_interes) /\ MappingHits(city_mapping, lead.ciudad_interes) # {}
    THEN city_mapping[Min(MappingHits(city_mapping, lead.ciudad_interes))][2]
    ELSE "residencias"

\* What the Lasso side does during one injection: whether the property has
\* an API key, whether the search finds a registrant, whether the create or
\* update call succeeds.
Remotes == [configured : BOOLEAN, found : BOOLEAN, call_ok : BOOLEAN]

\* services/crm_manager.py:50-136 with lasso_crm_service.py:471-511.  The
\* dictionary that is returned has the keys success, property_key, lasso
\* and errors.  On the create path `lead_id` is the dictionary returned by
\* create_lead, which `if lead_id:` takes as true whether or not the call
\* succeeded; on the update path it is the id only when update_lead is True.
inject_lead_to_property(property_key, remote) ==
    IF ~remote.configured
    THEN [success |-> FALSE, property_key |-> property_key, lasso |-> Null,
          errors |-> <<"Invalid property key">>]
    ELSE IF remote.found /\ ~remote.call_ok
    THEN [success |-> FALSE, property_key |-> property_key, lasso |-> "failed",
          errors |-> <<>>]
    ELSE [success |-> TRUE, property_key |-> property_key, lasso |-> "lead",
          errors |-> <<>>]

\* dict.get(key): None for a key that the dictionary does not have
DictGet(d, key) == IF key \in DOMAIN d THEN d[key] ELSE Null

\* crm_integration.py:16-89.  Reading an attribute that the class does not
\* declare and that was never set on the object raises AttributeError, which
\* the handler at line 84 turns into a failure result.
inject_qualified_lead_to_crm(lead, remote) ==
    IF "crm_injected" \notin QualifiedLeadColumns /\ lead.crm_injected = Null
    THEN [success |-> FALSE, lead |-> lead, called |-> FALSE]
    ELSE IF lead.crm_injected # Null /\ ~Empty(lead.crm_lead_id)
    THEN [success |-> remote.configured /\ remote.call_ok, lead |-> lead, called |-> TRUE]
    ELSE LET result == inject_lead_to_property(_determine_property_from_lead(lead), remote)
         IN IF result.success
            THEN [success |-> TRUE, called |-> TRUE,
                  lead |-> [lead EXCEPT !.crm_injected = "True",
                                        !.crm_lead_id = DictGet(result, "lead_id")]]
            ELSE [success |-> FALSE, lead |-> lead, called |-> TRUE]

-----------------------------------------------------------------------------
(* main.create_or_update_lead_immediately, the nurture of every message *)

\* main.py:637-650: the name that the patterns "me llamo X", "soy X" find
NameIn(message) ==
    IF "me llamo luis" \in {message[i] : i \in 1..Len(message)} THEN "Luis" ELSE ""

\* main.py:657-666
PropertyInterest(words) ==
    IF words \cap {"yucatan", "riviera maya", "cancun", "playa del carmen"} # {}
    THEN "yucatan"
    ELSE IF words \cap {"valle de guadalupe", "baja california", "ensenada", "vino"} # {}
    THEN "valle_de_guadalupe"
    ELSE IF words \cap {"costalegre", "jalisco", "guadalajara", "puerto vallarta"} # {}
    THEN "costalegre"
    ELSE IF words \cap {"mar de cortes", "cortes"} # {}
    THEN "mar_de_cortes"
    ELSE "yucatan"

\* main.py:671-675
LeadRatingOf(words) ==
    IF words \cap {"urgente", "inmediato", "esta semana", "pronto", "visita",
                   "llamada", "contacto"} # {}
    THEN "hot"
    ELSE IF words \cap {"comprar", "invertir", "inversion", "presupuesto", "precio",
                        "costo"} # {}
    THEN "warm"
    ELSE "initial"

\* main.py:735-737: rating_hierarchy.get(rating, 1)
rating_hierarchy(rating) ==
    CASE rating = "initial" -> 1
      [] rating = "warm" -> 2
      [] rating = "hot" -> 3
      [] OTHER -> 1

\* main.py:708-721, the keywords of the constructor call
NurtureLeadKeywords(customer_id, full_name, phone_number, property_interest, lead_rating) ==
    [customer_info_id |-> customer_id, nombre |-> full_name, telefono |-> phone_number,
     email |-> "", fuente |-> "AI Agent", proyecto_interes |-> property_interest,
     ciudad_interes |-> property_interest, motivo_interes |-> "interes_inicial",
     urgencia_compra |-> "sin_urgencia", desea_informacion |-> TRUE,
     lead_rating |-> lead_rating, conversation_summary |-> "Lead creado"]

\* main.py:726-745, the update of an existing lead
NurtureLeadUpdate(lead, full_name, property_interest, lead_rating) ==
    LET named == IF ~Empty(full_name) /\ Empty(lead.nombre)
                 THEN [lead EXCEPT !.nombre = full_name] ELSE lead
        placed == IF ~Empty(property_interest) /\ Empty(named.proyecto_interes)
                  THEN [named EXCEPT !.proyecto_interes = property_interest,
                                     !.ciudad_interes = property_interest]
                  ELSE named
    IN IF rating_hierarchy(lead_rating) > rating_hierarchy(placed.lead_rating)
       THEN [placed EXCEPT !.lead_rating = lead_rating,
                           !.conversation_summary = "Lead actualizado"]
       ELSE placed

\* The rating that the table holds for a phone, None without a lead.
RatingOf(lds, phone_number) ==
    IF first(lds, "telefono", phone_number) = 0 THEN Null
    ELSE lds[first(lds, "telefono", phone_number)].lead_rating

\* main.py:696-699 without the test of the column
FillEmpty_always(current, value) == IF ~Empty(value) THEN value ELSE current

\* main.py:696-699: `if value and not existing_customer.column`
FillEmpty(current, value) == IF ~Empty(value) /\ Empty(current) THEN value ELSE current

\* main.py:621-758.  The result: the two tables as committed, and whether
\* inject_qualified_lead_to_crm was called.  An exception leaves what was
\* committed before it and drops the changes that were not committed.
create_or_update_lead_immediately(cust, lds, message, phone_number, profile_name, db_fails, remote) ==
    LET full_name == IF ~Empty(profile_name) THEN profile_name ELSE NameIn(message)
        property_interest == PropertyInterest(TextWords(message))
        lead_rating == LeadRatingOf(TextWords(message))
        c == first(cust, "telefono", phone_number)
        cust1 ==
            IF c = 0
            THEN Append(cust, NewCustomerInfo(
                     [nombre |-> full_name, telefono |-> phone_number,
                      fuente |-> "AI Agent", ciudad_interes |-> property_interest]))
            ELSE [cust EXCEPT ![c] =
                     [@ EXCEPT !.nombre = FillEmpty(@, full_name),
                               !.ciudad_interes = FillEmpty(@, property_interest)]]
        customer_id == IF c = 0 THEN Len(cust1) ELSE c
        l == first(lds, "telefono", phone_number)
        kw == NurtureLeadKeywords(customer_id, full_name, phone_number,
                                  property_interest, lead_rating)
    IN IF db_fails
       THEN [customers |-> cust, leads |-> lds, crm |-> FALSE]
       ELSE IF l = 0
       THEN IF ~ValidKeywords(kw, QualifiedLeadColumns)
            THEN [customers |-> cust1, leads |-> lds, crm |-> FALSE]     \* TypeError
            ELSE LET inj == inject_qualified_lead_to_crm(NewQualifiedLead(kw), remote)
                 IN [customers |-> cust1, leads |-> Append(lds, inj.lead), crm |-> TRUE]
       ELSE IF "lead_rating" \notin QualifiedLeadColumns /\ lds[l].lead_rating = Null
            THEN [customers |-> cust1, leads |-> lds, crm |-> FALSE]     \* AttributeError
            ELSE LET inj == inject_qualified_lead_to_crm(
                                NurtureLeadUpdate(lds[l], full_name, property_interest,
                                                  lead_rating), remote)
                 IN [customers |-> cust1, leads |-> [lds EXCEPT ![l] = inj.lead],
                     crm |-> TRUE]

-----------------------------------------------------------------------------
(* main.process_message, the handler of POST /message *)

\* What can fail downstream during one request, and the failures one
\* request can meet when `failed` have happened before it.
FaultSets(failed) ==
    {f \in SUBSET {"thread_create", "log_inbound", "send", "log_outbound", "store",
                   "nurture", "crm"} : Cardinality(f) <= MaxFaults - failed}

\* The Lasso side of a request: the property has its key, the registrant
\* is new, and the create call fails when the CRM fails.
RemoteOf(faults) == [configured |-> TRUE, found |-> FALSE, call_ok |-> "crm" \notin faults]

\* main.py:429: asyncio.run() is called while the event loop of the server
\* is running the handler, which raises RuntimeError before the coroutine
\* of process_ai_message is started.
asyncio_run == "error"

\* The reply without the handler of main.py:431-433.
ReplyAfterAi_unguarded(outcome) == IF outcome = "ok" THEN AiReply ELSE Null

\* main.py:413-433: the reply after the AI call
ReplyAfterAi(outcome) == IF outcome = "ok" THEN AiReply ELSE FallbackReply

\* The sid that Twilio gives to the n-th message it accepts.
OutSid(n) ==
    CASE n = 1 -> "MT1" [] n = 2 -> "MT2" [] n = 3 -> "MT3" [] n = 4 -> "MT4"
      [] OTHER -> "MTn"

\* services/twilio_service.py:31-99 without the failure, which the caller
\* takes from the faults of the request
log_message(logs, direction, message_body, message_sid) ==
    IF ~Empty(message_sid) /\ first(logs, "message_sid", message_sid) # 0
    THEN logs
    ELSE Append(logs, [message_sid |-> message_sid, direction |-> direction,
                       message_body |-> message_body])

\* main.py:255-264: the referral columns of a thread and the form field each
\* one is read from.
ReferralFormField ==
    [referral_source_type |-> "ReferralSourceType",
     referral_source_id   |-> "ReferralSourceId",
     referral_source_url  |-> "ReferralSourceUrl",
     referral_header      |-> "ReferralHeader",
     referral_body        |-> "ReferralBody",
     ctwa_clid            |-> "ctwa_clid",
     button_text          |-> "ButtonText",
     button_payload       |-> "ButtonPayload"]

ReferralKeys == DOMAIN ReferralFormField

\* form_data.get(name): None for a field the request does not carry
FormGet(form_data, name) == IF name \in DOMAIN form_data THEN form_data[name] ELSE Null

\* main.py:255-264
referral_metadata(form_data) ==
    [key \in ReferralKeys |-> FormGet(form_data, ReferralFormField[key])]

NoReferral == [key \in ReferralKeys |-> Null]

\* main.py:365-371, with every value stored whatever the column holds
StoreReferral_overwrite(thread_record, metadata) ==
    [c \in DOMAIN thread_record |->
        IF c \in ReferralKeys /\ ~Empty(metadata[c])
        THEN metadata[c] ELSE thread_record[c]]

\* main.py:365-371: a value is stored in a column that is None or ""
StoreReferral(thread_record, metadata) ==
    [c \in DOMAIN thread_record |->
        IF c \in ReferralKeys /\ ~Empty(metadata[c]) /\ Empty(thread_record[c])
        THEN metadata[c] ELSE thread_record[c]]

\* main.py:381-387; models.py:78-88
NewThread(sender, sender_platform, sender_display_name, metadata) ==
    [sender |-> sender, sender_platform |-> sender_platform,
     sender_display_name |-> sender_display_name, is_paused |-> FALSE]
    @@ [key \in ReferralKeys |-> IF Empty(metadata[key]) THEN Null ELSE metadata[key]]

\* main.py:474-481, 579-585
NewConversation(sender, message, response, message_sid) ==
    [sender |-> sender, message |-> message, response |-> response,
     message_sid |-> message_sid]

\* main.py:487-497, 590-599
NewMessage(role, content, message_sid) ==
    [role |-> role, content |-> content, message_sid |-> message_sid]

\* The outcome of a request, as the histories record it.
Outcome(op, sid, from, status, branch) ==
    [op |-> op, sid |-> sid, from |-> from, status |-> status, branch |-> branch,
     paused |-> FALSE, ai |-> "none", response |-> Null, sent |-> FALSE,
     stored |-> FALSE, nurture |-> FALSE, faults |-> {}, referral |-> NoReferral]

\* The tables as a request finds them.
Tables ==
    [message_buffer |-> message_buffer, threads |-> threads,
     message_logs |-> message_logs, conversations |-> conversations,
     messages |-> messages, customers |-> customers, leads |-> leads,
     outbox |-> outbox, submitted |-> <<>>, invoked |-> <<>>]

\* main.py:208-523.  The result: the tables as the request leaves them, the
\* call of get_debounced_message it made, the lead operation it invoked and
\* its outcome.
process_message(w, faults) ==
    LET message_sid == w.MessageSid
        whatsapp_number == w.From
        profile_name == w.ProfileName
    IN
    IF Empty(message_sid) \/ Empty(whatsapp_number)
    THEN Tables @@ [out |-> Outcome("message", message_sid, whatsapp_number, 200, "invalid")]
    ELSE
    LET d == get_debounced_message(message_buffer, whatsapp_number, <<w.Body>>,
                                   message_sid, now)
        s1 == [Tables EXCEPT
                 !.message_buffer = d.buffer,
                 !.submitted = << [from |-> whatsapp_number, body |-> w.Body,
                                   sid |-> message_sid, at |-> now, kind |-> d.kind,
                                   text |-> d.text, should |-> d.should,
                                   final_sid |-> d.sid] >>]
        o == Outcome("message", d.sid, whatsapp_number, 200, "done")
        t == first(threads, "sender", whatsapp_number)
        threads1 ==
            IF t = 0
            THEN Append(threads, NewThread(whatsapp_number, "WhatsApp",
                                           IF Empty(profile_name) THEN Null
                                           ELSE profile_name,
                                           referral_metadata(w)))
            ELSE [threads EXCEPT ![t] = StoreReferral(
                      [@ EXCEPT !.sender_display_name =
                          IF ~Empty(profile_name) /\ Empty(@) THEN profile_name ELSE @],
                      referral_metadata(w))]
        thread_record == threads1[IF t = 0 THEN Len(threads1) ELSE t]
        s2 == [s1 EXCEPT !.threads = threads1]
        s3 == [s2 EXCEPT !.message_logs =
                  log_message(message_logs, "inbound", d.text, d.sid)]
        ai == IF thread_record.is_paused THEN "none" ELSE asyncio_run
        response == IF thread_record.is_paused THEN "" ELSE ReplyAfterAi(asyncio_run)
        sent == ~thread_record.is_paused /\ "send" \notin faults
        sid == IF sent THEN OutSid(Len(outbox) + 1) ELSE Null
        s4 == IF sent
              THEN [s3 EXCEPT !.outbox = Append(outbox, [to |-> whatsapp_number,
                                                         body |-> response])]
              ELSE s3
        s5 == IF thread_record.is_paused THEN s4
              ELSE [s4 EXCEPT !.message_logs =
                       log_message(s3.message_logs, "outbound", response, sid)]
        stored == /\ "store" \notin faults
                  /\ SidUnique(conversations, d.sid)
                  /\ SidUnique(messages, d.sid)
        s6 == IF stored
              THEN [s5 EXCEPT
                      !.conversations = Append(conversations,
                          NewConversation(whatsapp_number, d.text, response, d.sid)),
                      !.messages = messages \o
                          << NewMessage("user", d.text, d.sid),
                             NewMessage("assistant", response, Null) >>]
              ELSE s5
        \* a commit that failed leaves the session unusable until a rollback,
        \* which main.py:507-508 does not do
        n == create_or_update_lead_immediately(customers, leads, d.text,
                 whatsapp_number, profile_name, ~stored \/ "nurture" \in faults,
                 RemoteOf(faults))
        s7 == [s6 EXCEPT !.customers = n.customers, !.leads = n.leads,
                         !.invoked = << [op |-> "nurture", phone |-> whatsapp_number,
                                         sid |-> d.sid, required |-> TRUE,
                                         signal |-> LeadRatingOf(TextWords(d.text)),
                                         rating |-> RatingOf(n.leads, whatsapp_number)] >>]
    IN
    IF ~d.should
    THEN s1 @@ [out |-> [o EXCEPT !.branch = "buffered"]]
    ELSE IF first(conversations, "message_sid", d.sid) # 0
    THEN s1 @@ [out |-> [o EXCEPT !.branch = "duplicate"]]
    ELSE IF t = 0 /\ "thread_create" \in faults
    THEN s1 @@ [out |-> [o EXCEPT !.status = 500, !.branch = "error",
                                  !.faults = faults]]
    ELSE IF "log_inbound" \in faults
    THEN s2 @@ [out |-> [o EXCEPT !.status = 500, !.branch = "error",
                                  !.faults = faults,
                                  !.paused = thread_record.is_paused]]
    ELSE IF ~thread_record.is_paused /\ "log_outbound" \in faults
    THEN s4 @@ [out |-> [o EXCEPT !.status = 500, !.branch = "error",
                                  !.faults = faults, !.ai = ai,
                                  !.response = response, !.sent = sent]]
    ELSE s7 @@ [out |-> [o EXCEPT !.faults = faults, !.ai = ai,
                                  !.paused = thread_record.is_paused,
                                  !.response = response, !.sent = sent,
                                  !.stored = stored, !.nurture = TRUE,
                                  !.referral = referral_metadata(w)]]

-----------------------------------------------------------------------------
(* main.process_web_widget_message, the handler of POST /web-widget/message *)

Visitors == {"v1"}

\* main.py:525-617
process_web_widget_message(visitor_id, body, response, faults) ==
    LET t == first(threads, "sender", visitor_id)
        threads1 == IF t = 0
                    THEN Append(threads, NewThread(visitor_id, "web", "Web Visitor", NoReferral))
                    ELSE threads
        thread_record == threads1[IF t = 0 THEN Len(threads1) ELSE t]
        stored == "store" \notin faults
        s1 == [Tables EXCEPT !.threads = threads1]
        s2 == IF stored
              THEN [s1 EXCEPT
                      !.conversations = Append(conversations,
                          NewConversation(visitor_id, <<body>>, response, Null)),
                      !.messages = messages \o
                          << NewMessage("user", <<body>>, Null),
                             NewMessage("assistant", response, Null) >>]
              ELSE s1
        o == [Outcome("widget", Null, visitor_id, 200, "done") EXCEPT !.faults = faults]
    IN IF t = 0 /\ "thread_create" \in faults
       THEN Tables @@ [out |-> [o EXCEPT !.status = 500, !.branch = "error"]]
       ELSE s2 @@ [out |-> [o EXCEPT !.paused = thread_record.is_paused, !.ai = "ok",
                                     !.response = response, !.stored = stored]]

-----------------------------------------------------------------------------
(* execute_functions.capture_customer_info and qualify_lead *)

\* dict.get(key, default)
DictGetOr(d, key, default) == IF key \in DOMAIN d THEN d[key] ELSE default

\* db.query(T).filter_by(nombre=..., fuente="web").first()
firstWeb(table, nombre) ==
    LET hits == {i \in 1..Len(table) : table[i].nombre = nombre /\ table[i].fuente = "web"}
    IN IF hits = {} THEN 0 ELSE Min(hits)

\* a lookup by phone that never finds the row
Identify_unseen(table, data) == 0

\* execute_functions.py:358-370, 388-397, 492-502, 543-551
Identify(table, data) ==
    IF ~Empty(DictGetOr(data, "telefono", Null))
    THEN first(table, "telefono", data.telefono)
    ELSE IF DictGetOr(data, "fuente", "") = "web" /\ ~Empty(DictGetOr(data, "nombre", Null))
    THEN firstWeb(table, data.nombre)
    ELSE 0

\* execute_functions.py:431-439, 531-539
FinalName(data, customer_nombre, thr) ==
    LET given == DictGetOr(data, "nombre", "")
        t == first(thr, "sender", DictGetOr(data, "telefono", Null))
    IN IF ~Empty(given) THEN given
       ELSE IF ~Empty(customer_nombre) THEN customer_nombre
       ELSE IF ~Empty(DictGetOr(data, "telefono", Null)) /\ t # 0
               /\ ~Empty(thr[t].sender_display_name)
       THEN thr[t].sender_display_name
       ELSE ""

\* The injection as the caller saw it: whether it was attempted, whether a
\* request to the CRM was awaited, and the `success` of its result.
NoCrmCall == [attempted |-> FALSE, called |-> FALSE, success |-> FALSE]
CrmCall(crm_result) ==
    [attempted |-> TRUE, called |-> crm_result.called, success |-> crm_result.success]

\* execute_functions.py:415-425, 457-467, 588-598, 655-665, with the result
\* of the injection returned as the result of the operation
ResultAfterCrm_propagates(crm_result) == crm_result.success

\* execute_functions.py:415-425, 457-467, 588-598, 655-665: the result of the
\* injection is logged, an exception of it is caught and logged; the
\* operation goes on to return success
ResultAfterCrm(crm_result) == TRUE

\* execute_functions.py:323-483.  The result: the two tables as committed
\* and the `success` of the dictionary that is returned.
capture_customer_info(cust, lds, thr, customer_data, remote) ==
    LET valid_fields == CustomerInfoColumns
        filtered_data ==
            [k \in {k \in DOMAIN customer_data \cap valid_fields :
                       ~Empty(customer_data[k])} |-> customer_data[k]]
        c == Identify(cust, filtered_data)
        new_customer == NewCustomerInfo(filtered_data)
        cust1 ==
            IF c # 0
            THEN [cust EXCEPT ![c] =
                     [col \in DOMAIN @ |-> IF col \in DOMAIN filtered_data
                                           THEN filtered_data[col] ELSE @[col]]]
            ELSE Append(cust, new_customer)
        customer_id == IF c # 0 THEN c ELSE Len(cust1)
        l == Identify(lds, filtered_data)
        enhanced ==
            [lds[l] EXCEPT
               !.nombre = IF ~Empty(DictGetOr(filtered_data, "nombre", Null))
                          THEN filtered_data.nombre ELSE @,
               !.email = IF ~Empty(DictGetOr(filtered_data, "email", Null))
                         THEN filtered_data.email ELSE @,
               !.tipo_propiedad =
                   IF ~Empty(DictGetOr(filtered_data, "tipo_propiedad", Null))
                   THEN filtered_data.tipo_propiedad ELSE @]
        new_lead ==
            NewQualifiedLead(
                [customer_info_id |-> customer_id,
                 nombre |-> FinalName(filtered_data,
                                      IF c # 0 THEN cust[c].nombre ELSE "", thr),
                 email |-> DictGetOr(filtered_data, "email", ""),
                 telefono |-> DictGetOr(filtered_data, "telefono", ""),
                 fuente |-> DictGetOr(filtered_data, "fuente", "WhatsApp"),
                 tipo_propiedad |-> DictGetOr(filtered_data, "tipo_propiedad", ""),
                 motivo_interes |-> "informacion_recopilada",
                 desea_informacion |-> TRUE])
    IN IF c = 0 /\ ~(NotNullOk(new_customer) /\ UniqueOk(cust, new_customer))
       THEN [customers |-> cust, leads |-> lds, success |-> FALSE, crm |-> NoCrmCall]
       ELSE IF l # 0
       THEN [customers |-> cust1,
             success |-> ResultAfterCrm(inject_qualified_lead_to_crm(enhanced, remote)),
             leads |-> [lds EXCEPT ![l] =
                           inject_qualified_lead_to_crm(enhanced, remote).lead],
             crm |-> CrmCall(inject_qualified_lead_to_crm(enhanced, remote))]
       ELSE IF ~UniqueOk(lds, new_lead)
       THEN [customers |-> cust1, leads |-> lds, success |-> FALSE, crm |-> NoCrmCall]
       ELSE [customers |-> cust1,
             success |-> ResultAfterCrm(inject_qualified_lead_to_crm(new_lead, remote)),
             leads |-> Append(lds, inject_qualified_lead_to_crm(new_lead, remote).lead),
             crm |-> CrmCall(inject_qualified_lead_to_crm(new_lead, remote))]

\* a flag that no motive sets
WantsFlag_never(current, motivo, m) == current

\* execute_functions.py:567-573: the flag of the motive m after the update
WantsFlag(current, motivo, m) == IF motivo = m THEN TRUE ELSE current

\* execute_functions.py:486-690
qualify_lead(cust, lds, thr, lead_data, remote) ==
    LET c == Identify(cust, lead_data)
        t == first(thr, "sender", DictGetOr(lead_data, "telefono", Null))
        display_name ==
            IF ~Empty(DictGetOr(lead_data, "nombre", ""))
            THEN lead_data.nombre
            ELSE IF ~Empty(DictGetOr(lead_data, "telefono", Null)) /\ t # 0
                    /\ ~Empty(thr[t].sender_display_name)
            THEN thr[t].sender_display_name
            ELSE ""
        customer_info ==
            NewCustomerInfo([nombre |-> display_name,
                             email |-> DictGetOr(lead_data, "email", ""),
                             telefono |-> DictGetOr(lead_data, "telefono", ""),
                             fuente |-> DictGetOr(lead_data, "fuente", "WhatsApp")])
        cust1 == IF c # 0 THEN cust ELSE Append(cust, customer_info)
        customer_id == IF c # 0 THEN c ELSE Len(cust1)
        final_name == FinalName(lead_data, cust1[customer_id].nombre, thr)
        l == Identify(lds, lead_data)
        motivo == DictGetOr(lead_data, "motivo", Null)
        updated ==
            [lds[l] EXCEPT
               !.nombre = IF ~Empty(final_name) THEN final_name ELSE @,
               !.email = IF ~Empty(DictGetOr(lead_data, "email", Null))
                         THEN lead_data.email ELSE @,
               !.motivo_interes = IF ~Empty(motivo) THEN motivo ELSE @,
               !.urgencia_compra = IF ~Empty(DictGetOr(lead_data, "urgencia", Null))
                                   THEN lead_data.urgencia ELSE @,
               !.metodo_contacto_preferido =
                   IF ~Empty(DictGetOr(lead_data, "metodo_contacto_preferido", Null))
                   THEN lead_data.metodo_contacto_preferido ELSE @,
               !.desea_informacion = WantsFlag(@, motivo, "informacion"),
               !.desea_visita = WantsFlag(@, motivo, "visita"),
               !.desea_llamada = WantsFlag(@, motivo, "llamada")]
        new_lead ==
            NewQualifiedLead(
                [customer_info_id |-> customer_id,
                 nombre |-> final_name,
                 email |-> DictGetOr(lead_data, "email", ""),
                 telefono |-> DictGetOr(lead_data, "telefono", ""),
                 fuente |-> DictGetOr(lead_data, "fuente", "WhatsApp"),
                 ciudad_interes |-> DictGetOr(lead_data, "ciudad_interes", ""),
                 proyecto_interes |-> DictGetOr(lead_data, "proyecto_interes", ""),
                 tipo_propiedad |-> DictGetOr(lead_data, "tipo_propiedad", ""),
                 motivo_interes |-> DictGetOr(lead_data, "motivo_interes", ""),
                 urgencia_compra |-> DictGetOr(lead_data, "urgencia_compra", ""),
                 metodo_contacto_preferido |->
                     DictGetOr(lead_data, "metodo_contacto_preferido", ""),
                 desea_visita |-> DictGetOr(lead_data, "desea_visita", FALSE),
                 desea_llamada |-> DictGetOr(lead_data, "desea_llamada", FALSE),
                 desea_informacion |-> DictGetOr(lead_data, "desea_informacion", FALSE),
                 conversation_summary |-> "Lead calificado"])
    IN IF c = 0 /\ ~(NotNullOk(customer_info) /\ UniqueOk(cust, customer_info))
       THEN [customers |-> cust, leads |-> lds, success |-> FALSE, crm |-> NoCrmCall]
       ELSE IF l # 0
       THEN [customers |-> cust1,
             success |-> ResultAfterCrm(inject_qualified_lead_to_crm(updated, remote)),
             leads |-> [lds EXCEPT ![l] =
                           inject_qualified_lead_to_crm(updated, remote).lead],
             crm |-> CrmCall(inject_qualified_lead_to_crm(updated, remote))]
       ELSE IF ~UniqueOk(lds, new_lead)
       THEN [customers |-> cust1, leads |-> lds, success |-> FALSE, crm |-> NoCrmCall]
       ELSE [customers |-> cust1,
             success |-> ResultAfterCrm(inject_qualified_lead_to_crm(new_lead, remote)),
             leads |-> Append(lds, inject_qualified_lead_to_crm(new_lead, remote).lead),
             crm |-> CrmCall(inject_qualified_lead_to_crm(new_lead, remote))]

-----------------------------------------------------------------------------
(* services/lasso_crm_service.py and services/crm_manager.py                 *)
(*                                                                           *)
(* A phone number is the sequence of its characters, with the channel       *)
(* prefix "whatsapp:" as one element.  A name is the sequence of its words   *)
(* and of the blanks between them, a word being a sequence of characters.   *)

\* lasso_crm_service.py:18-49: the keys of PROPERTY_MAPPING
PROPERTY_MAPPING ==
    {"costalegre", "residencias", "valle_de_guadalupe", "yucatan", "mar_de_cortes"}

\* lasso_crm_service.py:60-69: the properties whose API key is set in the
\* environment when the service is constructed
ConfiguredAtStart == PROPERTY_MAPPING \ {"mar_de_cortes"}

IsDigit(c) == c \in {"0", "1", "2", "3", "4", "5", "6", "7", "8", "9"}

\* str.strip()
RECURSIVE LStrip(_)
LStrip(text) == IF text # <<>> /\ text[1] = " " THEN LStrip(Tail(text)) ELSE text
RECURSIVE RStrip(_)
RStrip(text) ==
    IF text # <<>> /\ text[Len(text)] = " "
    THEN RStrip(SubSeq(text, 1, Len(text) - 1)) ELSE text
Strip(text) == RStrip(LStrip(text))

\* phone.replace("whatsapp:", "") keeps the other characters
NotPrefix(c) == c # "whatsapp:"

\* lasso_crm_service.py:116-146 without the removal of the channel prefix
\* and of the other characters that are not digits
normalize_phone_number_raw(phone) ==
    IF phone = <<>> THEN <<>>
    ELSE IF phone[1] = "+" \/ Len(phone) # 10 THEN phone
    ELSE <<"+", "5", "2">> \o phone

\* lasso_crm_service.py:116-146
normalize_phone_number(phone) ==
    IF phone = <<>> THEN <<>>
    ELSE
    LET WithCountryCode(digits) ==
            IF digits # <<>> /\ digits[1] # "+"
            THEN IF Len(digits) = 10 THEN <<"+", "5", "2">> \o digits
                 ELSE <<"+">> \o digits
            ELSE digits
        DigitsOf(replaced) ==
            IF replaced # <<>> /\ replaced[1] = "+"
            THEN <<"+">> \o SelectSeq(Tail(replaced), IsDigit)
            ELSE SelectSeq(replaced, IsDigit)
    IN WithCountryCode(DigitsOf(SelectSeq(Strip(phone), NotPrefix)))

\* phone_digits[-4:]
LastFour(text) == SubSeq(text, IF Len(text) > 4 THEN Len(text) - 3 ELSE 1, Len(text))

Blank == <<" ">>
IsWord(w) == w # Blank
Word_Cliente == <<"C", "l", "i", "e", "n", "t", "e">>
Word_WhatsApp == <<"W", "h", "a", "t", "s", "A", "p", "p">>

\* " ".join(name_parts)
RECURSIVE Join(_)
Join(parts) ==
    IF parts = <<>> THEN <<>>
    ELSE IF Len(parts) = 1 THEN <<parts[1]>>
    ELSE <<parts[1], Blank>> \o Join(Tail(parts))

\* lasso_crm_service.py:166-193 without the completion of a name of fewer
\* than two words
NameParts_unfilled(full_name, phone) == SelectSeq(full_name, IsWord)

\* lasso_crm_service.py:166-182: name_parts, the words of the name after the
\* placeholders are put in
NameParts(full_name, phone) ==
    LET phone_digits == SelectSeq(phone, IsDigit)
        placeholder == IF phone_digits # <<>>
                       THEN <<Word_Cliente, LastFour(phone_digits)>>
                       ELSE <<Word_Cliente, Word_WhatsApp>>
        given == SelectSeq(full_name, IsWord)
    IN IF given = <<>> THEN placeholder
       ELSE IF Len(given) = 1 THEN <<given[1], Word_WhatsApp>>
       ELSE given

\* lasso_crm_service.py:148-230: the fields of the payload that identify the
\* registrant
prepare_lead_data(customer_data, property_key) ==
    LET LeadData(phone, first_name, last_name) ==
            [firstName |-> IF first_name = <<>> \/ last_name = <<>>
                           THEN Word_Cliente ELSE first_name,
             lastName |-> IF first_name = <<>> \/ last_name = <<>>
                          THEN <<Word_WhatsApp>> ELSE last_name,
             phone |-> phone, project |-> property_key]
        Named(phone, name_parts) ==
            LeadData(phone,
                     IF name_parts # <<>> THEN name_parts[1] ELSE Word_Cliente,
                     IF Len(name_parts) > 1 THEN Join(Tail(name_parts))
                     ELSE <<Word_WhatsApp>>)
        WithPhone(phone) ==
            Named(phone, NameParts(DictGetOr(customer_data, "nombre", <<>>), phone))
    IN WithPhone(normalize_phone_number(DictGetOr(customer_data, "telefono", <<>>)))

\* lasso_crm_service.py:426: the phone of the search criteria as it is sent
SearchPhone_raw(phone) == phone

\* lasso_crm_service.py:426: the phone of the search criteria
SearchPhone(phone) == normalize_phone_number(phone)

\* The registrant API of Lasso.  A search returns the registrants of the
\* project whose phone equals the phone of the criteria; a create stores
\* the payload under a new id.
RemoteSearch(registrants, phone, project) ==
    IF \E i \in 1..Len(registrants) :
          registrants[i].phone = phone /\ registrants[i].project = project
    THEN Min({i \in 1..Len(registrants) :
                 registrants[i].phone = phone /\ registrants[i].project = project})
    ELSE 0

RemoteCreate(registrants, lead_data) ==
    Append(registrants, lead_data @@ [id |-> Len(registrants) + 1, updates |-> 0])

RemoteUpdate(registrants, lead_id, lead_data) ==
    [registrants EXCEPT ![lead_id] =
        [@ EXCEPT !.firstName = lead_data.firstName, !.lastName = lead_data.lastName,
                  !.updates = @ + 1]]

\* How the requests of one injection end: answered ("ok"), refused or not
\* delivered ("error"), or carried out with the answer timing out ("lost").
Nets ==
    { [search |-> "ok", write |-> "ok"], [search |-> "ok", write |-> "error"],
      [search |-> "ok", write |-> "lost"], [search |-> "error", write |-> "ok"] }

\* lasso_crm_service.py:382-408 with 410-469: the index of the registrant
\* found, 0 for None
search_lead(lasso_state, phone, property_key, net) ==
    IF property_key \notin lasso_state.configured_properties THEN 0
    ELSE IF net.search # "ok" THEN 0
    ELSE RemoteSearch(lasso_state.registrants, SearchPhone(phone), property_key)

\* lasso_crm_service.py:255-329
create_lead(lasso_state, customer_data, property_key, net) ==
    IF property_key \notin lasso_state.configured_properties
    THEN [success |-> FALSE, lasso |-> lasso_state, requests |-> 0]
    ELSE [success |-> net.write = "ok", requests |-> 1,
          lasso |-> IF net.write = "error" THEN lasso_state
                    ELSE [lasso_state EXCEPT !.registrants =
                             RemoteCreate(@, prepare_lead_data(customer_data,
                                                               property_key))]]

\* lasso_crm_service.py:331-380
update_lead(lasso_state, lead_id, customer_data, property_key, net) ==
    IF property_key \notin lasso_state.configured_properties
    THEN [success |-> FALSE, lasso |-> lasso_state, requests |-> 0]
    ELSE [success |-> net.write = "ok", requests |-> 1,
          lasso |-> IF net.write = "error" THEN lasso_state
                    ELSE [lasso_state EXCEPT !.registrants =
                             RemoteUpdate(@, lead_id,
                                          prepare_lead_data(customer_data,
                                                            property_key))]]

\* lasso_crm_service.py:471-511.  `lead_id` tells whether the value that is
\* returned is true: the id after an update that succeeded, and on the
\* create path the dictionary of create_lead, whatever its `success`.
create_or_update_lead(lasso_state, customer_data, property_key, net) ==
    LET searched == IF property_key \in lasso_state.configured_properties THEN 1 ELSE 0
        Updated(u) ==
            [lead_id |-> u.success, path |-> "update", lasso |-> u.lasso,
             requests |-> searched + u.requests]
        Created(c) ==
            [lead_id |-> TRUE, path |-> "create", lasso |-> c.lasso,
             requests |-> searched + c.requests]
        Upserted(existing_lead) ==
            IF existing_lead # 0
            THEN Updated(update_lead(lasso_state, existing_lead, customer_data,
                                     property_key, net))
            ELSE Created(create_lead(lasso_state, customer_data, property_key, net))
    IN Upserted(search_lead(lasso_state, DictGetOr(customer_data, "telefono", <<>>),
                            property_key, net))

\* str.lower() on the property keys in use
LowerKey(key) == IF key = "Yucatan" THEN "yucatan" ELSE key

\* lasso_crm_service.py:528-538
validate_property_key(lasso_state, property_key) ==
    LowerKey(property_key) \in lasso_state.configured_properties

\* lasso_crm_service.py:96-106
is_property_configured(lasso_state, property_key) ==
    property_key \in lasso_state.configured_properties

\* crm_manager.py:35-108 with 110-136.  `raised` is the AttributeError of
\* property_key.lower() for a key that is None (line 53).
CRMManager_inject_lead_to_property(lasso_state, customer_data, property_key, net) ==
    LET failed == [raised |-> FALSE, success |-> FALSE, error |-> Null,
                   lasso |-> lasso_state, requests |-> 0, path |-> "none"]
        Injected(r) ==
            [raised |-> FALSE, success |-> r.lead_id,
             error |-> IF r.lead_id THEN Null
                       ELSE "Failed to create/update Lasso CRM lead",
             lasso |-> r.lasso, requests |-> r.requests, path |-> r.path]
    IN IF property_key = Null
       THEN [failed EXCEPT !.raised = TRUE]
       ELSE IF ~validate_property_key(lasso_state, property_key)
       THEN [failed EXCEPT !.error = "Invalid property key"]
       ELSE IF lasso_state.configured_properties = {}
       THEN [failed EXCEPT !.error = "Lasso CRM is not configured"]
       ELSE IF ~is_property_configured(lasso_state, property_key)
       THEN [failed EXCEPT !.error = "is not configured in Lasso CRM (API key not set)"]
       ELSE Injected(create_or_update_lead(lasso_state, customer_data, property_key,
                                           net))

\* crm_manager.py:164-180: the counters after the result p of one key
Counted(results, property_key, p) ==
    [lasso |-> p.lasso,
     attempted |-> Append(results.attempted, property_key),
     successful_injections |->
         results.successful_injections + (IF ~p.raised /\ p.success THEN 1 ELSE 0),
     failed_injections |->
         results.failed_injections + (IF ~p.raised /\ p.success THEN 0 ELSE 1)]

\* crm_manager.py:162-179 with the first failure ending the loop
RECURSIVE InjectEach_stopping(_, _, _, _)
InjectEach_stopping(customer_data, property_keys, net, results) ==
    IF property_keys = <<>> THEN results
    ELSE CHOOSE out \in
            { IF next.failed_injections = results.failed_injections
              THEN InjectEach_stopping(customer_data, Tail(property_keys), net, next)
              ELSE next :
                next \in { Counted(results, property_keys[1], p) :
                    p \in { CRMManager_inject_lead_to_property(
                                results.lasso, customer_data, property_keys[1],
                                net) } } } : TRUE

\* crm_manager.py:162-179: the loop over the keys, each key injected into
\* the CRM as the keys before it left it
RECURSIVE InjectEach(_, _, _, _)
InjectEach(customer_data, property_keys, net, results) ==
    IF property_keys = <<>> THEN results
    ELSE CHOOSE out \in
            { InjectEach(customer_data, Tail(property_keys), net, next) :
                next \in { Counted(results, property_keys[1], p) :
                    p \in { CRMManager_inject_lead_to_property(
                                results.lasso, customer_data, property_keys[1],
                                net) } } } : TRUE

\* crm_manager.py:138-185
inject_lead_to_multiple_properties(lasso_state, customer_data, property_keys, net) ==
    LET Summed(results) ==
            results @@ [raised |-> FALSE,
                        success |-> results.successful_injections > 0,
                        total_properties |-> Len(property_keys)]
    IN Summed(InjectEach(customer_data, property_keys, net,
                         [lasso |-> lasso_state, attempted |-> <<>>,
                          successful_injections |-> 0, failed_injections |-> 0]))

-----------------------------------------------------------------------------
(* The state machine *)

InitLocal ==
    /\ now = 0
    /\ message_buffer = <<>>
    /\ threads = <<>>
    /\ message_logs = <<>>
    /\ conversations = <<>>
    /\ messages = <<>>
    /\ customers = <<>>
    /\ leads = <<>>
    /\ outbox = <<>>
    /\ submits = <<>>
    /\ ops = <<>>
    /\ last = Outcome("none", Null, Null, 0, "none")
    /\ failures = 0
    /\ reqs = 0
    /\ tasks = {}

Init ==
    /\ InitLocal
    /\ lasso = [configured_properties |-> ConfiguredAtStart, registrants |-> <<>>]

\* The tables and histories after a request with result r.
Commit(r) ==
    /\ message_buffer' = r.message_buffer
    /\ threads' = r.threads
    /\ message_logs' = r.message_logs
    /\ conversations' = r.conversations
    /\ messages' = r.messages
    /\ customers' = r.customers
    /\ leads' = r.leads
    /\ outbox' = r.outbox
    /\ submits' = submits \o r.submitted
    /\ ops' = ops \o r.invoked
    /\ last' = r.out

\* time passes
Tick(d) ==
    /\ now + d <= MaxTime
    /\ now' = now + d
    /\ UNCHANGED <<message_buffer, threads, message_logs, conversations, messages,
                   customers, leads, outbox, submits, ops, last, failures, reqs,
                   lasso, tasks>>

\* POST /message
ProcessMessage(w, faults) ==
    /\ reqs < MaxRequests
    /\ reqs' = reqs + 1
    /\ failures' = failures + Cardinality(faults)
    /\ Commit(process_message(w, faults))
    /\ UNCHANGED <<now, lasso, tasks>>

\* POST /web-widget/message
ProcessWebWidgetMessage(visitor_id, response, faults) ==
    /\ reqs < MaxRequests
    /\ reqs' = reqs + 1
    /\ failures' = failures + Cardinality(faults)
    /\ Commit(process_web_widget_message(visitor_id, "Hola", response, faults))
    /\ UNCHANGED <<now, lasso, tasks>>

\* An operator of the dashboard pauses or resumes the assistant for a
\* conversation (Thread.is_paused, models.py:78).
SetPaused(sender, value) ==
    /\ first(threads, "sender", sender) # 0
    /\ threads[first(threads, "sender", sender)].is_paused # value
    /\ reqs < MaxRequests
    /\ reqs' = reqs + 1
    /\ threads' = [threads EXCEPT ![first(threads, "sender", sender)].is_paused = value]
    /\ UNCHANGED <<now, message_buffer, message_logs, conversations, messages,
                   customers, leads, outbox, submits, ops, last, failures, lasso, tasks>>

Next ==
    \/ \E d \in {1, DebounceWindow} : Tick(d)
    \* with the deliveries whose envelope is not valid (main.py:229-240)
    \/ \E w \in Webhooks
              \cup { [MessageSid |-> Null, From |-> "p1", Body |-> "Hola",
                      ProfileName |-> "Ana"],
                     [MessageSid |-> "SM1", From |-> "", Body |-> "Hola",
                      ProfileName |-> "Ana"] },
          faults \in FaultSets(failures) :
           ProcessMessage(w, faults)
    \* single_ai_handler.py:336-420: process_message returns the reply of the
    \* model or, after an exception, its own apology
    \/ \E v \in Visitors,
          response \in {AiReply, "Lo siento, hubo un problema tecnico. Por favor, intenta de nuevo mas tarde."},
          faults \in FaultSets(failures) \cap SUBSET {"thread_create", "store"} :
           ProcessWebWidgetMessage(v, response, faults)
    \/ \E s \in Senders \cup Visitors, value \in BOOLEAN : SetPaused(s, value)

Spec == Init /\ [][Next]_vars

-----------------------------------------------------------------------------
(* The lead operations on their own *)

\* The messages whose nurture is run: no signal, a visit, a price.
LeadMessages ==
    { [MessageSid |-> Null, From |-> p, Body |-> m[1], ProfileName |-> m[2]] :
        p \in Senders, m \in {<<"Hola", "Ana">>, <<"visita", "">>, <<"precio", "">>} }

\* The arguments of capture_customer_info as execute_function passes them
\* (execute_functions.py:116-123): `nombre` and `telefono` are the required
\* fields of the tool, the others are optional
\* (single_ai_handler.py:102-113: email and interes).
OptionalCapture == [email |-> "ana@correo.mx", interes |-> "villa en la playa"]
CaptureArguments ==
    { [k \in {"nombre", "telefono", "fuente"} \cup opt |->
          CASE k = "nombre" -> nombre
            [] k = "telefono" -> p
            [] k = "fuente" -> "WhatsApp"
            [] OTHER -> OptionalCapture[k]] :
        nombre \in {"Ana", "Luis", ""}, p \in Senders,
        opt \in SUBSET DOMAIN OptionalCapture }

\* The entry of the history for a lead operation with arguments `data`,
\* after which the table of leads is `lds`.
LeadOp(op, data, lds) ==
    [op |-> op, phone |-> data.telefono, sid |-> Null,
     required |-> ~Empty(data.nombre) /\ ~Empty(data.telefono), signal |-> Null,
     rating |-> RatingOf(lds, data.telefono)]

LeadUnchanged ==
    UNCHANGED <<now, message_buffer, threads, message_logs, conversations, messages,
                outbox, submits, last, failures, reqs, lasso, tasks>>

\* main.py:513, the nurture of one message
Nurture(w, remote) ==
    /\ Len(ops) < MaxLeadOps
    /\ LET n == create_or_update_lead_immediately(customers, leads, <<w.Body>>, w.From,
                                                  w.ProfileName, FALSE, remote)
       IN /\ customers' = n.customers
          /\ leads' = n.leads
          /\ ops' = Append(ops, [op |-> "nurture", phone |-> w.From, sid |-> Null,
                                 required |-> TRUE,
                                 signal |-> LeadRatingOf(WordsIn(w.Body)),
                                 rating |-> RatingOf(n.leads, w.From)])
    /\ LeadUnchanged

\* execute_functions.py:255-257
CaptureInfo(customer_data, remote) ==
    /\ Len(ops) < MaxLeadOps
    /\ LET r == capture_customer_info(customers, leads, threads, customer_data, remote)
       IN /\ customers' = r.customers
          /\ leads' = r.leads
          /\ ops' = Append(ops, LeadOp("capture", customer_data, r.leads))
    /\ LeadUnchanged

\* execute_functions.py:266-268
QualifyLead(lead_data, remote) ==
    /\ Len(ops) < MaxLeadOps
    /\ LET r == qualify_lead(customers, leads, threads, lead_data, remote)
       IN /\ customers' = r.customers
          /\ leads' = r.leads
          /\ ops' = Append(ops, LeadOp("qualify", lead_data, r.leads))
    /\ LeadUnchanged

NextLead ==
    \/ \E w \in LeadMessages, remote \in Remotes : Nurture(w, remote)
    \/ \E customer_data \in CaptureArguments, remote \in Remotes :
           CaptureInfo(customer_data, remote)
    \/ \E nombre \in {"Ana", ""}, p \in Senders, motivo \in {"visita", "informacion"},
          remote \in Remotes :
           QualifyLead([nombre |-> nombre, telefono |-> p, fuente |-> "WhatsApp",
                        motivo |-> motivo], remote)

SpecLead == Init /\ [][NextLead]_vars

-----------------------------------------------------------------------------
(* Properties of the message pipeline, under Spec *)

\* The number of times the nurture was invoked for a provider message id.
NurtureCalls(sid) ==
    Cardinality({i \in DOMAIN ops : ops[i].op = "nurture" /\ ops[i].sid = sid})

\* C1: whatever the order and timing of the deliveries that carry one
\* provider message id, the lead nurture (and with it the CRM injection) is
\* invoked at most once for that id.
C1_NurtureAtMostOncePerId == \A sid \in Sids : NurtureCalls(sid) <= 1

FromP1(e) == e.from = "p1"
P1Submits == SelectSeq(submits, FromP1)

\* The sender's first three submissions are "Hola", "como", "estas", each
\* within the window of the one before.
HolaComoEstas ==
    /\ Len(P1Submits) >= 3
    /\ <<P1Submits[1].body, P1Submits[2].body, P1Submits[3].body>>
          = <<"Hola", "como", "estas">>
    /\ P1Submits[2].at - P1Submits[1].at < DebounceWindow
    /\ P1Submits[3].at - P1Submits[2].at < DebounceWindow

\* C2: a burst "Hola", "como", "estas", each fragment within the window of
\* the previous one, gives exactly one result with should_process = True,
\* and the text of that result holds the three fragments in order.
C2_BurstProcessedWhole ==
    HolaComoEstas =>
        /\ Cardinality({i \in 1..3 : P1Submits[i].should}) = 1
        /\ \A i \in 1..3 : P1Submits[i].should =>
               Fragments(P1Submits[i].text) = <<"Hola", "como", "estas">>

\* Whether a text holds a body among its fragments.
Holds(text, body) == \E k \in DOMAIN Fragments(text) : Fragments(text)[k] = body

\* C3: no buffered fragment is lost: a fragment whose submission returned
\* should_process = False is in the buffer of its sender, waiting, or in the
\* text of a later submission of that sender that returned True.
C3_NoFragmentLost ==
    \A i \in DOMAIN submits :
        ~submits[i].should =>
            \/ /\ submits[i].from \in DOMAIN message_buffer
               /\ Holds(message_buffer[submits[i].from].message, submits[i].body)
            \/ \E j \in DOMAIN submits :
                   /\ j > i
                   /\ submits[j].from = submits[i].from
                   /\ submits[j].should
                   /\ Holds(submits[j].text, submits[i].body)

\* The last request was a delivery with a valid envelope.
ValidDelivery == last.op = "message" /\ ~Empty(last.sid) /\ ~Empty(last.from)

\* C7: a delivery with a valid envelope is answered with a success status,
\* whatever failed downstream.
C7_AlwaysSuccessStatus == ValidDelivery => last.status = 200

\* C8: a message for a sender whose thread is paused is stored, and gets no
\* AI reply, no outbound message and no lead processing.
C8_PausedOnlyStores ==
    (last.op \in {"message", "widget"} /\ last.paused) =>
        /\ last.faults = {} => last.stored
        /\ last.response = ""
        /\ ~last.sent
        /\ ~last.nurture

\* The last request reached the AI call, the call failed, and nothing else did.
AiFailedAlone == last.op = "message" /\ last.ai = "error" /\ last.faults = {}

\* C9: when the AI call fails or times out, the reply is the fixed fallback
\* text and the request runs to its end: the reply is sent, the conversation
\* and the two message rows are stored, the nurture is invoked.
C9_FallbackAndCompletion ==
    AiFailedAlone =>
        /\ last.status = 200
        /\ last.response = FallbackReply
        /\ last.sent
        /\ outbox # <<>> /\ outbox[Len(outbox)] = [to |-> last.from, body |-> FallbackReply]
        /\ \E i \in DOMAIN conversations :
               /\ conversations[i].message_sid = last.sid
               /\ conversations[i].response = FallbackReply
        /\ \E i \in DOMAIN messages :
               /\ messages[i].role = "user"
               /\ messages[i].message_sid = last.sid
               /\ i < Len(messages)
               /\ messages[i + 1] = NewMessage("assistant", FallbackReply, Null)
        /\ last.nurture
        /\ ops # <<>> /\ ops[Len(ops)].op = "nurture" /\ ops[Len(ops)].sid = last.sid

\* A request that met the failure of the AI call alone, after an earlier
\* request of the same sender.
C9_Witness == AiFailedAlone /\ last.stored /\ Len(conversations) >= 2

\* C10: there is at most one conversation row and at most one user message
\* row for a provider message id.
C10_OneRecordPerSid ==
    \A sid \in Sids :
        /\ Cardinality(Matching(conversations, "message_sid", sid)) <= 1
        /\ Cardinality({i \in DOMAIN messages :
                           messages[i].role = "user" /\ messages[i].message_sid = sid}) <= 1

\* A delivery that repeats an id whose conversation is stored and that the
\* debounce hands to processing.
C10_Witness ==
    /\ last.op = "message" /\ last.branch = "duplicate"
    /\ Cardinality(Matching(conversations, "message_sid", last.sid)) = 1

-----------------------------------------------------------------------------
(* Properties of the lead operations, under SpecLead *)

\* The operations on the lead of a phone, in the order they were invoked.
OpsOf(p) == SelectSeq(ops, LAMBDA e : e.phone = p)

\* The place of a rating in the order cold < initial < warm < hot; a lead
\* without a rating, or no lead, comes before all of them.
RatingRank(rating) ==
    CASE rating = "cold" -> 1
      [] rating = "initial" -> 2
      [] rating = "warm" -> 3
      [] rating = "hot" -> 4
      [] OTHER -> 0

\* The operations on the lead of p were three nurtures with the signals
\* initial, hot, warm, in that order.
InitialHotWarm(p) ==
    /\ Len(OpsOf(p)) = 3
    /\ \A i \in 1..3 : OpsOf(p)[i].op = "nurture"
    /\ <<OpsOf(p)[1].signal, OpsOf(p)[2].signal, OpsOf(p)[3].signal>>
          = <<"initial", "hot", "warm">>

\* C4: over every sequence of nurture, CaptureInfo and QualifyLead on a lead
\* its rating never moves backward in cold < initial < warm < hot, and after
\* the nurture signals initial, hot, warm the rating is hot.
C4_RatingForwardAndHot ==
    \A p \in Senders :
        /\ \A i, j \in DOMAIN OpsOf(p) :
               i < j => RatingRank(OpsOf(p)[i].rating) <= RatingRank(OpsOf(p)[j].rating)
        /\ InitialHotWarm(p) => RatingOf(leads, p) = "hot"

\* The captures for a phone that carried the required fields.
Captures(p) ==
    {i \in DOMAIN ops : ops[i].op = "capture" /\ ops[i].phone = p /\ ops[i].required}

\* C5: once CaptureInfo has run for a phone, whatever the number of calls,
\* their optional fields and the nurtures and QualifyLead calls among them,
\* there is exactly one customer and exactly one lead with that phone.
C5_OneCustomerOneLead ==
    \A p \in Senders :
        Captures(p) # {} =>
            /\ Cardinality(Matching(customers, "telefono", p)) = 1
            /\ Cardinality(Matching(leads, "telefono", p)) = 1

\* Two captures for one phone with another kind of operation before the
\* second of them, and the rows of that phone.
C5_Witness ==
    \E p \in Senders :
        /\ Cardinality(Captures(p)) >= 2
        /\ \E i \in DOMAIN ops :
               /\ ops[i].phone = p
               /\ ops[i].op \in {"nurture", "qualify"}
               /\ \E j \in Captures(p) : i < j
        /\ Cardinality(Matching(customers, "telefono", p)) = 1
        /\ Cardinality(Matching(leads, "telefono", p)) = 1

\* C6: a lead that is marked as injected into the CRM has the id that the
\* CRM gave it.
C6_InjectedHasRemoteId ==
    \A i \in DOMAIN leads :
        ~Empty(leads[i].crm_injected) => ~Empty(leads[i].crm_lead_id)

\* A lead that is marked as injected.
C6_Injected == \E i \in DOMAIN leads : ~Empty(leads[i].crm_injected)

-----------------------------------------------------------------------------
(* Deliveries that carry referral metadata *)

\* The referral fields a delivery can carry (main.py:255-264).
\* a click on an ad, a click on a post, a tap on a button
Referrals ==
    { <<>>,
      [ReferralSourceType |-> "ad", ReferralSourceId |-> "ad1",
       ReferralHeader |-> "Chable Yucatan", ReferralBody |-> "72 residencias",
       ctwa_clid |-> "c1"],
      [ReferralSourceType |-> "post", ReferralSourceUrl |-> "fb.me/p1",
       ReferralHeader |-> "", ctwa_clid |-> "c2"],
      [ReferralSourceType |-> "button", ReferralSourceId |-> "", ButtonText |-> "Yucatan",
       ButtonPayload |-> "property_yucatan"] }

ReferredWebhooks ==
    { w @@ r : w \in Webhooks \cup { [MessageSid |-> "SM4", From |-> "p2",
                                       Body |-> "Hola", ProfileName |-> ""] },
               r \in Referrals }

\* POST /message with referral fields in the form
ProcessReferredMessage(w) ==
    /\ reqs < MaxRequests
    /\ reqs' = reqs + 1
    /\ Commit(process_message(w, {}))
    /\ UNCHANGED <<now, failures, lasso, tasks>>

NextReferral ==
    \/ \E d \in {1, DebounceWindow} : Tick(d)
    \/ \E w \in ReferredWebhooks : ProcessReferredMessage(w)

SpecReferral == Init /\ [][NextReferral]_vars

-----------------------------------------------------------------------------
(* Properties of the attribution of a thread, under SpecReferral *)

\* C11: each attribution field of a thread (referral_source_type,
\* referral_source_id, referral_source_url, referral_header, referral_body,
\* ctwa_clid, button_text, button_payload) is set once: once it holds a
\* non-empty value, no later inbound message of that sender changes it.
C11_AttributionSetOnce ==
    [][\A i \in 1..Len(threads) : \A key \in ReferralKeys :
          ~Empty(threads[i][key]) =>
              /\ i <= Len(threads')
              /\ threads'[i].sender = threads[i].sender
              /\ threads'[i][key] = threads[i][key]]_vars

\* A message was processed that carried a value for a field the thread of
\* its sender already held with another value, and filled a field that was
\* empty.
C11_Witness ==
    /\ last.op = "message" /\ last.branch = "done"
    /\ \E i \in 1..Len(threads) :
          /\ threads[i].sender = last.from
          /\ \E key \in ReferralKeys :
                /\ ~Empty(last.referral[key])
                /\ ~Empty(threads[i][key])
                /\ threads[i][key] # last.referral[key]
          /\ \E key \in ReferralKeys :
                /\ last.referral[key] = "property_yucatan"
                /\ threads[i][key] = "property_yucatan"

-----------------------------------------------------------------------------
(* execute_functions.execute_function, the dispatcher of the tools           *)
(*                                                                           *)
(* An argument payload is the sequence of the tokens of its text.  The JSON  *)
(* texts of the model are scalars, arrays of scalars and objects whose       *)
(* values are scalars.                                                       *)

Punct(c) == [t |-> "punct", v |-> c]
Str(x) == [t |-> "string", v |-> x]
Bare(x) == [t |-> "bare", v |-> x]

IsScalar(tok) == tok.t \in {"string", "number", "null"}

\* `[` scalar (`,` scalar)* `]`
IsArrayText(text) ==
    /\ Len(text) >= 2
    /\ text[1] = Punct("[") /\ text[Len(text)] = Punct("]")
    /\ Len(text) > 2 => Len(text) % 2 = 1
    /\ \A i \in 2..(Len(text) - 1) :
          IF i % 2 = 0 THEN IsScalar(text[i]) ELSE text[i] = Punct(",")

\* `{` string `:` scalar (`,` string `:` scalar)* `}`
IsObjectText(text) ==
    /\ Len(text) >= 2
    /\ text[1] = Punct("{") /\ text[Len(text)] = Punct("}")
    /\ Len(text) > 2 => Len(text) % 4 = 1
    /\ \A i \in 2..(Len(text) - 1) :
          CASE i % 4 = 2 -> text[i].t = "string"
            [] i % 4 = 3 -> text[i] = Punct(":")
            [] i % 4 = 0 -> IsScalar(text[i])
            [] OTHER -> text[i] = Punct(",")

ArrayOf(text) == [i \in 1..((Len(text) - 1) \div 2) |-> text[2 * i].v]

\* the last value given for a key is the one that stays
ObjectOf(text) ==
    LET n == (Len(text) - 1) \div 4
        keys == {text[4 * i - 2].v : i \in 1..n}
        Last(k) == CHOOSE i \in 1..n :
                      /\ text[4 * i - 2].v = k
                      /\ \A j \in 1..n : text[4 * j - 2].v = k => j <= i
    IN [k \in keys |-> text[4 * Last(k)].v]

\* json.loads(text): the value and its Python type, or JSONDecodeError
json_loads(text) ==
    IF IsObjectText(text) THEN [error |-> FALSE, type |-> "dict", value |-> ObjectOf(text)]
    ELSE IF IsArrayText(text) THEN [error |-> FALSE, type |-> "list", value |-> ArrayOf(text)]
    ELSE IF Len(text) = 1 /\ IsScalar(text[1])
    THEN [error |-> FALSE,
          type |-> CASE text[1].t = "string" -> "str"
                     [] text[1].t = "number" -> "int"
                     [] OTHER -> "NoneType",
          value |-> text[1].v]
    ELSE [error |-> TRUE, type |-> "JSONDecodeError", value |-> Null]

EmptyDict == [k \in {} |-> Null]

\* str.endswith("]}")
EndsWithBracketBrace(text) ==
    /\ Len(text) >= 2
    /\ text[Len(text) - 1] = Punct("]") /\ text[Len(text)] = Punct("}")

\* str.find("["), str.rfind("]"): 0 when there is none
Find(text, c) ==
    IF \E i \in 1..Len(text) : text[i] = Punct(c)
    THEN Min({i \in 1..Len(text) : text[i] = Punct(c)}) ELSE 0
RFind(text, c) ==
    IF \E i \in 1..Len(text) : text[i] = Punct(c)
    THEN CHOOSE i \in 1..Len(text) :
            /\ text[i] = Punct(c)
            /\ \A j \in 1..Len(text) : text[j] = Punct(c) => j <= i
    ELSE 0

\* execute_functions.py:92-113: the arguments after parsing, with the repair
\* of a text that json.loads rejects
ParseArguments(tool_call) ==
    LET arguments_str == IF "arguments" \in DOMAIN tool_call
                         THEN tool_call.arguments
                         ELSE <<Punct("{"), Punct("}")>>
        parsed == json_loads(arguments_str)
        array_part == SubSeq(arguments_str, Find(arguments_str, "["),
                             RFind(arguments_str, "]"))
        search_terms == json_loads(array_part)
    IN IF ~parsed.error
       THEN [type |-> parsed.type, value |-> parsed.value, repaired |-> "no"]
       ELSE IF EndsWithBracketBrace(arguments_str)
               /\ Find(arguments_str, "[") # 0 /\ RFind(arguments_str, "]") # 0
               /\ ~search_terms.error
       THEN [type |-> "dict", value |-> [search_terms |-> search_terms.value],
             repaired |-> "array"]
       ELSE [type |-> "dict", value |-> EmptyDict, repaired |-> "empty"]

\* str.lower() on the platform names in use
Lower(x) == IF x = "WhatsApp" THEN "whatsapp" ELSE x

\* execute_functions.py:115-122 with the source alone set on the arguments
SenderItems_fuente(sender_info) ==
    [fuente |-> DictGetOr(sender_info, "platform", "whatsapp")]

\* execute_functions.py:115-122: the items that are set on the arguments
SenderItems(sender_info) ==
    IF Lower(DictGetOr(sender_info, "platform", "whatsapp")) = "whatsapp"
    THEN [telefono |-> DictGetOr(sender_info, "number", ""),
          fuente |-> DictGetOr(sender_info, "platform", "whatsapp")]
    ELSE [fuente |-> DictGetOr(sender_info, "platform", "whatsapp")]

\* A value that a tool returns: its Python type and, for a dictionary, the
\* value of `success` and which of `message` and `error` it has.
ResultDict(success) ==
    [type |-> "dict", success |-> IF success THEN "True" ELSE "False",
     text |-> IF success THEN "message" ELSE "error"]
ResultNone == [type |-> "NoneType", success |-> Null, text |-> Null]

\* timeout_util.py:8-30: asyncio.wait_for cancels the function when the
\* deadline passes while it is suspended in an await, and None is returned
with_timeout(result, suspended_at_deadline) ==
    IF suspended_at_deadline THEN ResultNone ELSE result

\* execute_functions.py:1098-1168: the arguments of qualify_lead
ContactLead(data) ==
    [telefono |-> DictGetOr(data, "telefono", ""),
     nombre |-> DictGetOr(data, "nombre", "Cliente"),
     fuente |-> DictGetOr(data, "fuente", "WhatsApp"),
     motivo_interes |-> DictGetOr(data, "motivo", "otro"),
     urgencia_compra |-> DictGetOr(data, "urgencia", "sin_urgencia"),
     desea_llamada |-> TRUE,
     metodo_contacto_preferido |-> "WhatsApp",
     proyecto_interes |-> "Yucatan"]

\* The names that execute_function is called with; the last one is a name
\* it has no branch for.
FunctionNames ==
    {"capture_customer_info", "qualify_lead", "send_yucatan_location",
     "provide_contact_info", "enviar_foto", "msearch"}

\* execute_functions.py:255-316: the names execute_function has a branch for
Handlers == FunctionNames \ {"msearch"}

\* execute_functions.py:78-321.  The result: whether the call raised, the
\* value returned, the arguments that were dispatched, and the two tables;
\* `send` is what the provider did with the message of the call, if one was
\* handed to it, and `message_sid` what the value returned holds under that
\* key.  enviar_foto finds a photo in every database that has one
\* (execute_functions.py:947-1011), as the one of the code has (730-800), and
\* its result leaves the dispatcher as the text of json.dumps.
execute_function(tool_call, sender_info, cust, lds, thr, env) ==
    LET function_name == tool_call.function_name
        parsed == ParseArguments(tool_call)
        has_sender == DOMAIN sender_info # {}
        function_arguments ==
            IF has_sender /\ parsed.type = "dict"
            THEN SenderItems(sender_info) @@ parsed.value
            ELSE parsed.value
        \* a bare str, with no `success` and no text under a key
        out == [raised |-> FALSE,
                result |-> [type |-> "str", success |-> Null, text |-> Null],
                customers |-> cust,
                leads |-> lds, dispatched |-> function_name,
                repaired |-> parsed.repaired, type |-> parsed.type,
                has_telefono |-> FALSE, crm |-> NoCrmCall,
                send |-> "no send", message_sid |-> "absent"]
        is_dict == parsed.type = "dict"
        c == capture_customer_info(cust, lds, thr, function_arguments, env.remote)
        q == qualify_lead(cust, lds, thr, function_arguments, env.remote)
        p == qualify_lead(cust, lds, thr, ContactLead(function_arguments), env.remote)
        phone_number == IF has_sender THEN DictGetOr(sender_info, "number", Null)
                        ELSE DictGetOr(function_arguments, "telefono", Null)
        telefono == IF is_dict /\ ~Empty(DictGetOr(function_arguments, "telefono", Null))
                    THEN function_arguments["telefono"]
                    ELSE DictGetOr(sender_info, "number", "")
        known == [out EXCEPT !.has_telefono =
                     is_dict /\ "telefono" \in DOMAIN function_arguments]
    IN
    \* item assignment on a list, a string, a number or None raises TypeError
    IF has_sender /\ ~is_dict
    THEN [out EXCEPT !.raised = TRUE, !.result = ResultNone, !.dispatched = Null]
    ELSE IF function_name = "capture_customer_info"
    THEN IF ~is_dict THEN [known EXCEPT !.result = ResultDict(FALSE)]
         ELSE [known EXCEPT !.customers = c.customers, !.leads = c.leads,
                            !.crm = c.crm,
                            !.result = with_timeout(ResultDict(c.success),
                                                    c.crm.called /\ env.slow)]
    ELSE IF function_name = "qualify_lead"
    THEN IF ~is_dict THEN [known EXCEPT !.result = ResultDict(FALSE)]
         ELSE [known EXCEPT !.customers = q.customers, !.leads = q.leads,
                            !.crm = q.crm, !.result = ResultDict(q.success)]
    ELSE IF function_name = "send_yucatan_location"
    THEN IF ~has_sender /\ ~is_dict THEN [known EXCEPT !.result = ResultDict(FALSE)]
         ELSE IF Empty(phone_number) THEN [known EXCEPT !.result = ResultDict(FALSE)]
         ELSE [known EXCEPT !.result = ResultDict(env.send = "sid"),
                            !.send = env.send]
    ELSE IF function_name = "enviar_foto"
    \* .get on a value that is not a dictionary, or on the sender_info None,
    \* raises inside the try block of the branch
    THEN IF ~is_dict \/ (~has_sender /\ Empty(telefono))
         THEN [known EXCEPT !.result = [ResultDict(FALSE) EXCEPT !.type = "str"]]
         ELSE IF Empty(telefono)
         THEN [known EXCEPT !.result = [type |-> "str", success |-> "True",
                                        text |-> "error"]]
         \* utils.py:885-995: send_twilio_media_message returns the id of
         \* the message, and None when the provider raised
         ELSE [known EXCEPT !.result = [ResultDict(TRUE) EXCEPT !.type = "str"],
                            !.send = env.send,
                            !.message_sid = IF env.send = "sid" THEN "sid" ELSE "None"]
    ELSE IF function_name = "provide_contact_info"
    THEN IF ~is_dict THEN known
         ELSE [known EXCEPT !.customers = p.customers, !.leads = p.leads,
                            !.crm = p.crm]
    ELSE known

\* The argument payloads: JSON objects, texts that json.loads rejects, JSON
\* values that are not objects.  One object names the phone of somebody
\* else than the sender.
ObjectTexts ==
    { <<Punct("{"), Str("nombre"), Punct(":"), Str("Ana"), Punct(","),
        Str("motivo"), Punct(":"), Str("visita"), Punct("}")>>,
      <<Punct("{"), Str("telefono"), Punct(":"), Str("p2"), Punct(","),
        Str("nombre"), Punct(":"), Str("Ana"), Punct(","),
        Str("motivo"), Punct(":"), Str("visita"), Punct("}")>>,
      <<Punct("{"), Punct("}")>> }

\* a bare key before an array, bare words in an array, no opening brace,
\* a text cut before its closing brace
MalformedTexts ==
    { <<Punct("{"), Bare("search_terms"), Punct(":"), Punct("["), Str("a"),
        Punct(","), Str("b"), Punct("]"), Punct("}")>>,
      <<Punct("{"), Str("x"), Punct(":"), Punct("["), Bare("a"), Punct(","),
        Bare("b"), Punct("]"), Punct("}")>>,
      <<Bare("nombre"), Punct("]"), Punct("}")>>,
      <<Punct("{"), Str("nombre"), Punct(":"), Str("Ana")>> }

ToolCalls ==
    { [function_name |-> f, arguments |-> a] :
        f \in FunctionNames,
        a \in { t \in ObjectTexts : "telefono" \notin DOMAIN ObjectOf(t) }
              \cup MalformedTexts
              \* JSON that is not an object: an array, a string, a number, null
              \cup { <<Punct("["), Str("a"), Punct(","), Str("b"), Punct("]")>>,
                     <<Str("Ana")>>, <<[t |-> "number", v |-> "5"]>>,
                     <<[t |-> "null", v |-> "null"]>> } }
    \cup { [function_name |-> f] : f \in FunctionNames }

\* single_ai_handler.py:365-380, main.py:250-251, 556: the caller context;
\* `if sender_info:` is false for None and for an empty dictionary
SenderInfos ==
    { EmptyDict, [number |-> "p1", platform |-> "WhatsApp"],
      [number |-> "v1", platform |-> "web"] }

\* What surrounds one call: the CRM, the send of the location (a message id,
\* None, or an exception) and whether a request to the CRM is still awaited
\* when the deadline of capture_customer_info passes.
\* The CRM of a call: reachable without the lead, failing on a lead it has,
\* without credentials.
ExecuteSurroundings ==
    LET CrmUp == [configured |-> TRUE, found |-> FALSE, call_ok |-> TRUE]
        CrmDown == [configured |-> TRUE, found |-> TRUE, call_ok |-> FALSE]
        CrmUnconfigured == [configured |-> FALSE, found |-> FALSE, call_ok |-> FALSE]
    IN { env \in [remote : Remotes, send : {"sid", "none", "raise"}, slow : BOOLEAN] :
           /\ env.remote \in {CrmUp, CrmDown, CrmUnconfigured}
           /\ env.send # "sid" => (env.remote = CrmUp /\ ~env.slow) }

\* What the history keeps of one call of execute_function.
Executed(tool_call, sender_info, r) ==
    [op |-> "execute", function_name |-> tool_call.function_name,
     payload |-> IF "arguments" \notin DOMAIN tool_call THEN "missing"
                 ELSE IF tool_call.arguments \in ObjectTexts THEN "object"
                 ELSE IF tool_call.arguments \in MalformedTexts THEN "malformed"
                 ELSE "not an object",
     has_sender |-> DOMAIN sender_info # {}, sender_info |-> sender_info,
     telefono |-> IF ParseArguments(tool_call).type = "dict"
                  THEN DictGetOr(ParseArguments(tool_call).value, "telefono", Null)
                  ELSE Null,
     raised |-> r.raised, result |-> r.result, dispatched |-> r.dispatched,
     repaired |-> r.repaired, crm |-> r.crm, send |-> r.send,
     message_sid |-> r.message_sid]

\* single_ai_handler.py:454: one tool call of the assistant
Execute(tool_call, sender_info, env) ==
    /\ reqs < MaxCalls
    /\ reqs' = reqs + 1
    /\ LET r == execute_function(tool_call, sender_info, customers, leads, threads, env)
       IN /\ customers' = r.customers
          /\ leads' = r.leads
          /\ last' = Executed(tool_call, sender_info, r)
    /\ UNCHANGED <<now, message_buffer, threads, message_logs, conversations,
                   messages, outbox, submits, ops, failures, lasso, tasks>>

\* Every tool call in every surrounding that it can tell apart (the deadline
\* is that of capture_customer_info, the CRM is called by the three tools
\* that store a lead), and the calls of these tools with arguments that name
\* a phone, from a sender on WhatsApp and from a visitor of the web widget.
NextExecute ==
    \/ \E tool_call \in ToolCalls, sender_info \in SenderInfos :
          \E env \in { e \in ExecuteSurroundings :
                         /\ e.slow => tool_call.function_name = "capture_customer_info"
                         /\ tool_call.function_name
                               \in {"send_yucatan_location", "enviar_foto", "msearch"}
                            => (e.remote.configured /\ ~e.remote.found) } :
             Execute(tool_call, sender_info, env)
    \/ \E f \in {"capture_customer_info", "qualify_lead", "provide_contact_info"},
          a \in { t \in ObjectTexts : "telefono" \in DOMAIN ObjectOf(t) },
          sender_info \in SenderInfos \ {EmptyDict},
          env \in { e \in ExecuteSurroundings : e.send = "none" } :
           Execute([function_name |-> f, arguments |-> a], sender_info, env)

SpecExecute == Init /\ [][NextExecute]_vars

-----------------------------------------------------------------------------
(* Properties of the dispatcher, under SpecExecute *)

\* C12: for every action name, every argument payload (a JSON object,
\* malformed near-JSON, JSON that is not an object, no payload) and every
\* caller context (present or absent), execute_function returns a result
\* and never raises; after a parse failure it goes on with the recovered
\* array or with empty arguments and still dispatches the action.
C12_ExecuteNeverRaises ==
    last.op = "execute" =>
        /\ ~last.raised
        /\ last.dispatched = last.function_name
        /\ last.payload = "malformed" => last.repaired \in {"array", "empty"}

\* C13: whatever happens inside a handler (an exception, a failed
\* collaborator, capture_customer_info passing its deadline of 10 seconds),
\* execute_function returns a well-formed result: a value with a boolean
\* `success` and a `message` or an `error`.
C13_WellFormedResult ==
    (last.op = "execute" /\ ~last.raised /\ last.function_name \in Handlers) =>
        /\ last.result.type = "dict"
        /\ last.result.success \in {"True", "False"}
        /\ last.result.text \in {"message", "error"}

\* C14: capture_customer_info and qualify_lead return success whenever the
\* customer and the lead were committed, whatever the injection into the CRM
\* does: its failure is logged, it does not fail the operation and does not
\* reach the dispatcher as an exception.
C14_CrmFailureIsNotFailure ==
    (/\ last.op = "execute"
     /\ last.function_name \in {"capture_customer_info", "qualify_lead"}
     /\ last.crm.attempted) =>
        /\ ~last.raised
        /\ last.result = ResultDict(TRUE)

\* A capture and a qualification whose injection failed after the commit.
C14_Witness ==
    /\ last.op = "execute"
    /\ last.function_name \in {"capture_customer_info", "qualify_lead"}
    /\ last.crm.attempted /\ ~last.crm.success
    /\ last.result = ResultDict(TRUE)
    /\ Len(leads) >= 1 /\ Len(customers) >= 1

-----------------------------------------------------------------------------
(* The CRM services on their own *)

Local10 == <<"3", "0", "0", "1", "2", "3", "4", "5", "6", "7">>

\* The forms a phone number arrives in: "whatsapp:+573001234567",
\* "3001234567", "+52 300 123 4567", "300-123-4567" (routes_test.py:109-115)
\* and others made of the same parts.
PhoneForms ==
    { lead \o code \o body :
        lead \in {<<>>, <<"+">>, <<"whatsapp:">>, <<"whatsapp:", "+">>, <<" ">>,
                  <<" ", "+">>},
        code \in {<<>>, <<"5", "2">>, <<"5", "7">>, <<"5", "2", " ">>},
        body \in {Local10,
                  <<"3", "0", "0", " ", "1", "2", "3", " ", "4", "5", "6", "7">>,
                  <<"3", "0", "0", "-", "1", "2", "3", "-", "4", "5", "6", "7">>,
                  <<"1", "2", "3">>, <<"a", "b", "c">>, <<>>} }

\* crm_integration.py:39-55: the customer data of an injection, with the
\* name absent, empty or given
CrmCustomers ==
    { [nombre |-> <<<<"A", "n", "a">>, Blank, <<"L", "o", "p", "e", "z">>>>,
       telefono |-> p] :
        p \in {Local10, <<"whatsapp:", "+", "5", "2">> \o Local10,
               <<"+", "5", "2", " ", "3", "0", "0", " ", "1", "2", "3", " ",
                 "4", "5", "6", "7">>} }
    \cup { [nombre |-> <<>>, telefono |-> <<"+", "5", "7">> \o Local10],
           [telefono |-> Local10] }

CrmUnchanged ==
    UNCHANGED <<now, message_buffer, threads, message_logs, conversations, messages,
                customers, leads, outbox, submits, ops, failures, tasks>>

\* crm_manager.py:35-108
InjectLead(customer_data, property_key, net) ==
    /\ reqs < MaxCalls
    /\ reqs' = reqs + 1
    /\ \E r \in {CRMManager_inject_lead_to_property(lasso, customer_data,
                                                     property_key, net)} :
          /\ lasso' = r.lasso
          /\ last' = [op |-> "inject", property_key |-> property_key,
                      telefono |-> customer_data.telefono, net |-> net,
                      raised |-> r.raised, success |-> r.success,
                      error |-> r.error, requests |-> r.requests,
                      path |-> r.path]
    /\ CrmUnchanged

\* crm_manager.py:138-185
InjectLeadMultiProperty(customer_data, property_keys, net) ==
    /\ reqs < MaxCalls
    /\ reqs' = reqs + 1
    /\ \E r \in {inject_lead_to_multiple_properties(lasso, customer_data,
                                                     property_keys, net)} :
          /\ lasso' = r.lasso
          /\ last' = [op |-> "multi", property_keys |-> property_keys, net |-> net,
                      raised |-> r.raised, success |-> r.success,
                      attempted |-> r.attempted,
                      total_properties |-> r.total_properties,
                      successful_injections |-> r.successful_injections,
                      failed_injections |-> r.failed_injections,
                      fresh |-> lasso.registrants = <<>>]
    /\ CrmUnchanged

\* lasso_crm_service.py:116-146
NormalizePhone(phone) ==
    /\ last' = [op |-> "normalize", input |-> phone,
                output |-> normalize_phone_number(phone)]
    /\ UNCHANGED <<lasso, reqs>>
    /\ CrmUnchanged

\* lasso_crm_service.py:148-230
PrepareLeadData(customer_data, property_key) ==
    /\ last' = [op |-> "prepare", customer_data |-> customer_data,
                lead_data |-> prepare_lead_data(customer_data, property_key)]
    /\ UNCHANGED <<lasso, reqs>>
    /\ CrmUnchanged

\* The properties that have an API key in the environment: all but one,
\* one, none.
InitCrm ==
    /\ InitLocal
    /\ \E configured \in {ConfiguredAtStart, {"yucatan"}, {}} :
          lasso = [configured_properties |-> configured, registrants |-> <<>>]

\* The property keys of a call: configured or not, of another case, not in
\* the table, None.
NextCrm ==
    \/ \E customer_data \in CrmCustomers, net \in Nets,
          property_key \in {"yucatan", "costalegre", "mar_de_cortes", "Yucatan",
                            "tulum", Null} :
           InjectLead(customer_data, property_key, net)
    \/ \E customer_data \in CrmCustomers, net \in Nets,
          property_keys \in
              { <<>>, <<"mar_de_cortes">>, <<"tulum", "yucatan">>,
                <<Null, "costalegre">>,
                <<"yucatan", "mar_de_cortes", "costalegre">>,
                <<"yucatan", "yucatan", "Yucatan">> } :
           InjectLeadMultiProperty(customer_data, property_keys, net)

SpecCrm == InitCrm /\ [][NextCrm]_vars

\* crm_integration.py:92-168: the property of a lead with these two columns
DetermineProperty(proyecto_interes, ciudad_interes) ==
    /\ last' = [op |-> "determine", proyecto_interes |-> proyecto_interes,
                ciudad_interes |-> ciudad_interes,
                property_key |-> _determine_property_from_lead(
                    [proyecto_interes |-> proyecto_interes,
                     ciudad_interes |-> ciudad_interes])]
    /\ UNCHANGED <<lasso, reqs>>
    /\ CrmUnchanged

\* int() of a run of decimal digits
RECURSIVE int(_)
int(run) ==
    IF run = <<>> THEN 0
    ELSE 10 * int(SubSeq(run, 1, Len(run) - 1))
         + (CHOOSE d \in 0..9 :
               run[Len(run)] = <<"0", "1", "2", "3", "4", "5", "6", "7", "8", "9">>[d + 1])

\* re.findall(r'\d+', text): the maximal runs of digits, from left to right
RECURSIVE findall_digits(_)
findall_digits(text) ==
    IF text = <<>> THEN <<>>
    ELSE IF ~IsDigit(text[1]) THEN findall_digits(Tail(text))
    ELSE LET after == CHOOSE n \in 1..Len(text) :
                          /\ \A i \in 1..n : IsDigit(text[i])
                          /\ n = Len(text) \/ ~IsDigit(text[n + 1])
         IN <<SubSeq(text, 1, after)>> \o findall_digits(SubSeq(text, after + 1, Len(text)))

\* execute_functions.py:337-341: the factor 1000000.  Amounts are counted in
\* thousands, so that a product beyond four bytes can be written down.
Million == 1000

\* execute_functions.py:328-351: the budget of the arguments as the
\* dictionary of the fields that are set; `numbers` are the runs found, and
\* the filter `if k in valid_fields and v` drops a value 0
presupuesto_fields(numbers) ==
    LET Truthy(fields) == [k \in {k \in DOMAIN fields : fields[k] # 0} |-> fields[k]]
    IN Truthy(IF Len(numbers) >= 2
              THEN [presupuesto_min |-> int(numbers[1]) * Million,
                    presupuesto_max |-> int(numbers[2]) * Million]
              ELSE IF Len(numbers) = 1
              THEN [presupuesto_max |-> int(numbers[1]) * Million]
              ELSE EmptyDict)

\* models.py:166-167: Column(Integer), four bytes in PostgreSQL (db.py:13-31):
\* at most 2,147,483,647, which is 2,147,483 whole thousands
MaxInteger == 2147483

\* capture_customer_info with a budget in its arguments: the fields of the
\* customer that hold a value after the call.  A value out of the range of
\* the column fails the commit, which rolls the insert back.
CapturePresupuesto(presupuesto_value) ==
    /\ \E fields \in {presupuesto_fields(findall_digits(presupuesto_value))} :
          last' = [op |-> "presupuesto", presupuesto_value |-> presupuesto_value,
                   numbers |-> findall_digits(presupuesto_value),
                   committed |-> \A k \in DOMAIN fields : fields[k] <= MaxInteger,
                   customer |-> IF \A k \in DOMAIN fields : fields[k] <= MaxInteger
                                THEN fields ELSE EmptyDict]
    /\ UNCHANGED <<lasso, reqs>>
    /\ CrmUnchanged

\* normalize_phone_number and prepare_lead_data applied to every phone form
\* and every name, _determine_property_from_lead to every pair of a project
\* and a city: absent, empty, in a mapping, in none
NextPhone ==
    \/ \E phone \in PhoneForms : NormalizePhone(phone)
    \* the names of a lead: empty, blank, one word, several words
    \/ \E phone \in PhoneForms,
          name \in { <<>>, <<Blank>>, <<<<"A", "n", "a">>>>,
                     <<Blank, <<"A", "n", "a">>, Blank>>,
                     <<<<"A", "n", "a">>, Blank, <<"L", "o", "p", "e", "z">>>> } :
           PrepareLeadData([nombre |-> name, telefono |-> phone], "yucatan")
    \/ \E phone \in PhoneForms : PrepareLeadData([telefono |-> phone], "yucatan")
    \/ \E proyecto_interes, ciudad_interes \in
              {Null, "", "yucatan", "costalegre", "valle de guadalupe",
               "valle_de_guadalupe", "merida", "residencias", "mar_de_cortes"} :
           DetermineProperty(proyecto_interes, ciudad_interes)
    \* the budgets: no number, one number, a range (of millions, or a decimal
    \* number), three numbers
    \/ \E presupuesto_value \in
           LET Runs == { <<"0">>, <<"1">>, <<"3", "0", "0">>, <<"5", "0", "0">>,
                         <<"2", "1", "4", "7">>, <<"2", "1", "4", "8">> }
           IN { <<>>, <<"m">> }
              \cup Runs \cup { n \o <<" ", "m">> : n \in Runs }
              \cup { a \o <<sep>> \o b : a \in Runs, b \in Runs, sep \in {"-", "."} }
              \cup { <<"1", "-", "3", "0", "0", "-", "5", "0", "0">> } :
           CapturePresupuesto(presupuesto_value)

SpecPhone == Init /\ [][NextPhone]_vars

-----------------------------------------------------------------------------
(* Properties of the CRM services, under SpecCrm and SpecPhone *)

\* C15: inject_lead_to_multiple_properties attempts every key of its input
\* on its own: a failure or an exception for one key does not prevent the
\* attempt for the others, it never raises, the successful and the failed
\* injections add up to the number of keys, and the overall success is true
\* exactly when at least one injection succeeded; three keys of which one
\* has no credentials give 2 successful and 1 failed.
C15_EveryKeyAttempted ==
    last.op = "multi" =>
        /\ ~last.raised
        /\ last.attempted = last.property_keys
        /\ last.successful_injections + last.failed_injections
               = Len(last.property_keys)
        /\ last.total_properties = Len(last.property_keys)
        /\ last.success <=> last.successful_injections > 0
        /\ (/\ last.property_keys = <<"yucatan", "mar_de_cortes", "costalegre">>
            /\ lasso.configured_properties = ConfiguredAtStart
            /\ last.net.write = "ok")
           => /\ last.successful_injections = 2
              /\ last.failed_injections = 1

\* Three keys, the second without credentials: two registrants were
\* created after the failure of the second key.
C15_Witness ==
    /\ last.op = "multi"
    /\ last.property_keys = <<"yucatan", "mar_de_cortes", "costalegre">>
    /\ lasso.configured_properties = ConfiguredAtStart
    /\ last.successful_injections = 2 /\ last.failed_injections = 1
    /\ last.fresh /\ Len(lasso.registrants) = 2

\* A list whose first key is None: the exception of that key is counted as
\* a failure and the second key is injected.
C15_AfterException ==
    /\ last.op = "multi" /\ last.property_keys = <<Null, "costalegre">>
    /\ last.successful_injections = 1 /\ last.failed_injections = 1

InPropertyTable(property_key) == LowerKey(property_key) \in PROPERTY_MAPPING

\* C16: inject_lead_to_property for a key that is in the property table but
\* has no credential returns success false with an explicit "not
\* configured" error, which differs from the error for a key that is not in
\* the table and from a transport failure; no remote call is made.
C16_NotConfiguredIsExplicit ==
    (/\ last.op = "inject" /\ last.property_key # Null
     /\ InPropertyTable(last.property_key)
     /\ LowerKey(last.property_key) \notin lasso.configured_properties) =>
        /\ ~last.raised /\ ~last.success
        /\ last.requests = 0
        /\ last.error \in {"is not configured in Lasso CRM (API key not set)",
                           "Lasso CRM is not configured"}

SamePerson(a, b) == a.phone = b.phone /\ a.project = b.project

\* C17: the upsert is idempotent: whatever the sequence of injections with
\* the same normalized phone and the same property, at most one registrant
\* is created for them, also when a search fails or times out.
C17_OneRegistrantPerPhone ==
    \A i, j \in 1..Len(lasso.registrants) :
        SamePerson(lasso.registrants[i], lasso.registrants[j]) => i = j

\* C18: the phone is normalized in the same way on write and on search and
\* the normalization is idempotent: a registrant written with the canonical
\* form of a phone is found by a search that starts from any form of it.
C18_SearchFindsWritten ==
    /\ \A p \in PhoneForms :
          normalize_phone_number(normalize_phone_number(p)) = normalize_phone_number(p)
    /\ \A i \in 1..Len(lasso.registrants) :
          /\ normalize_phone_number(lasso.registrants[i].phone)
                 = lasso.registrants[i].phone
          /\ \A p \in PhoneForms :
                normalize_phone_number(p) = lasso.registrants[i].phone =>
                    /\ RemoteSearch(lasso.registrants, SearchPhone(p),
                                    lasso.registrants[i].project) # 0
                    /\ SamePerson(lasso.registrants[
                                      RemoteSearch(lasso.registrants, SearchPhone(p),
                                                   lasso.registrants[i].project)],
                                  lasso.registrants[i])
    /\ (last.op = "inject" /\ last.path = "create" /\ last.net.write # "error") =>
          lasso.registrants[Len(lasso.registrants)].phone
              = normalize_phone_number(last.telefono)

\* A registrant written from one form of a phone was found, and updated,
\* by an injection that started from another form of it.
C18_Witness ==
    /\ last.op = "inject" /\ last.path = "update" /\ last.success
    /\ last.telefono # normalize_phone_number(last.telefono)
    /\ \E i \in 1..Len(lasso.registrants) :
          /\ lasso.registrants[i].phone = normalize_phone_number(last.telefono)
          /\ lasso.registrants[i].updates = 1

HasDigit(text) == \E i \in 1..Len(text) : IsDigit(text[i])
LeadingPlus(text) ==
    LET body == SelectSeq(Strip(text), NotPrefix)
    IN body # <<>> /\ body[1] = "+"

\* C19: normalize_phone_number strips the channel prefix, keeps a leading
\* '+', removes every other character that is not a digit, and prepends
\* the default country code exactly when the result has 10 digits and no
\* '+'; for an input that holds a digit the result is '+' and digits only.
C19_NormalizedForm ==
    last.op = "normalize" =>
        LET digits == SelectSeq(last.input, IsDigit)
        IN /\ HasDigit(last.input) =>
                  /\ last.output[1] = "+"
                  /\ \A i \in 2..Len(last.output) : IsDigit(last.output[i])
           /\ ~HasDigit(last.input) =>
                  last.output = IF LeadingPlus(last.input) THEN <<"+">> ELSE <<>>
           /\ (Len(digits) = 10 /\ ~LeadingPlus(last.input)) =>
                  last.output = <<"+", "5", "2">> \o digits
           /\ (HasDigit(last.input) /\ ~(Len(digits) = 10 /\ ~LeadingPlus(last.input))) =>
                  last.output = <<"+">> \o digits

\* "whatsapp:3001234567" was normalized to "+523001234567".
C19_Witness ==
    /\ last.op = "normalize"
    /\ last.input = <<"whatsapp:">> \o Local10
    /\ last.output = <<"+", "5", "2">> \o Local10

NameGiven(customer_data) ==
    /\ "nombre" \in DOMAIN customer_data
    /\ \E i \in 1..Len(customer_data.nombre) : IsWord(customer_data.nombre[i])

\* C20: for every name of the lead (absent, empty, one word, several words)
\* and every phone, the payload of the create and of the update call has a
\* first name and a last name that are not empty; when the name is empty
\* they are a placeholder made from the digits of the phone.
C20_FirstAndLastName ==
    /\ last.op = "prepare" =>
          /\ last.lead_data.firstName # <<>>
          /\ last.lead_data.lastName # <<>>
          /\ \A i \in 1..Len(last.lead_data.lastName) : last.lead_data.lastName[i] # <<>>
          /\ (/\ ~NameGiven(last.customer_data)
              /\ HasDigit(last.customer_data.telefono)) =>
                 /\ last.lead_data.firstName = Word_Cliente
                 /\ last.lead_data.lastName
                        = <<LastFour(SelectSeq(last.customer_data.telefono, IsDigit))>>
    /\ \A i \in 1..Len(lasso.registrants) :
          lasso.registrants[i].firstName # <<>> /\ lasso.registrants[i].lastName # <<>>

\* The payload for a lead without a name and with the phone "3001234567":
\* Cliente 4567.
C20_Witness ==
    /\ last.op = "prepare"
    /\ "nombre" \notin DOMAIN last.customer_data
    /\ last.customer_data.telefono = Local10
    /\ last.lead_data.lastName = <<<<"4", "5", "6", "7">>>>

-----------------------------------------------------------------------------
(* Properties of the routing of a lead, under SpecPhone *)

-----------------------------------------------------------------------------
(* Properties of the lead tools and of the nurture, under SpecLead *)

CaptureStep ==
    /\ Len(ops') = Len(ops) + 1
    /\ ops'[Len(ops')].op = "capture"

\* C22: capture_customer_info on an existing customer fills only the fields
\* that are empty: a field of the customer that holds a value that is not
\* empty keeps it, whatever value the call supplies.
C22_CaptureFillsEmptyOnly ==
    [][CaptureStep =>
          \A i \in DOMAIN customers : \A col \in CustomerInfoColumns :
              ~Empty(customers[i][col]) => customers'[i][col] = customers[i][col]]_vars

NurtureStep ==
    /\ Len(ops') = Len(ops) + 1
    /\ ops'[Len(ops')].op = "nurture"

-----------------------------------------------------------------------------
(* Properties of the buffer of the debounce, under Spec *)

\* C24: after a message was processed without a fault, the buffer of its
\* sender has been removed
C24_BufferRemovedAfterProcessing ==
    (last.op = "message" /\ last.branch = "done" /\ last.faults = {}) =>
        last.from \notin DOMAIN message_buffer

\* the submission before submits[j] of the same sender, 0 if there is none
Previous(j) ==
    LET before == {i \in 1..(j - 1) : submits[i].from = submits[j].from}
    IN IF before = {} THEN 0 ELSE CHOOSE i \in before : \A k \in before : k <= i

\* submits[j] came a full window or more after the previous fragment
AfterGap(j) ==
    Previous(j) # 0 /\ submits[j].at - submits[Previous(j)].at >= DebounceWindow

OwnOnly(j) ==
    /\ submits[j].should
    /\ submits[j].text = <<submits[j].body>>
    /\ submits[j].final_sid = submits[j].sid

-----------------------------------------------------------------------------
(* Properties of an unknown action name, under SpecExecute *)

\* C26: called with an action name it has no branch for, execute_function
\* does not raise and returns a result with success false
C26_UnknownActionIsFailure ==
    (last.op = "execute" /\ last.function_name \notin Handlers) =>
        /\ ~last.raised
        /\ last.result.type = "dict"
        /\ last.result.success = "False"

-----------------------------------------------------------------------------
(* Properties of a delivery that was processed before, under Spec *)

\* a delivery reaches get_debounced_message with a provider id for which a
\* Conversation row is already stored
RedeliveryStep ==
    /\ Len(submits') = Len(submits) + 1
    /\ first(conversations, "message_sid", submits'[Len(submits')].sid) # 0

\* C28: a delivery whose provider id was already processed leaves the buffer
\* of the debounce, the threads, the stored messages and the leads unchanged
C28_ProcessedIdTouchesNothing ==
    [][RedeliveryStep =>
          UNCHANGED <<message_buffer, threads, message_logs, conversations,
                      messages, customers, leads>>]_vars

-----------------------------------------------------------------------------
(* Requests that are handled concurrently.  The server runs one event loop  *)
(* (main.py:760-762) and every handler is a coroutine: a request that was   *)
(* accepted waits as a task, and a task that runs keeps the loop until it   *)
(* suspends.  process_message suspends in `await request.form()` before it  *)
(* reads any state; after it, get_debounced_message takes a lock that is    *)
(* free and the calls of the database, of the assistant and of Twilio are   *)
(* synchronous, so the rest of the handler runs without another task in     *)
(* between.  The same holds for the widget handler and for the two tools,   *)
(* whose only awaits come after their commits.  No downstream call fails    *)
(* here: the failures are the subject of Spec.                              *)

MaxTasks == 3

\* The requests: three fragments of p1, two messages of the visitor v1, two
\* captures and two qualifications for the phone p1.
TaskKeys ==
    [message |-> Sids, widget |-> {"a", "b"}, capture |-> {"Ana", "Luis"},
     qualify |-> {"visita", "informacion"}]

\* the event loop accepts a request: its task waits for its turn
Arrive(kind, key) ==
    /\ Cardinality(tasks) < MaxTasks
    /\ \A t \in tasks : ~(t.kind = kind /\ t.key = key)
    /\ tasks' = tasks \cup {[kind |-> kind, key |-> key, phase |-> "waiting",
                              overlapped |-> {}, fresh |-> FALSE, result |-> "none"]}
    /\ UNCHANGED <<now, message_buffer, threads, message_logs, conversations,
                   messages, customers, leads, outbox, submits, ops, last,
                   failures, reqs, lasso>>

\* The task t has run: the kinds of the tasks that waited meanwhile, whether
\* it met a sender or a phone that was not known, and what it returned.
Finished(t, fresh, result) ==
    (tasks \ {t}) \cup
    {[t EXCEPT !.phase = "done", !.fresh = fresh, !.result = result,
               !.overlapped = {u.kind : u \in {u \in tasks \ {t} : u.phase = "waiting"}}]}

\* main.py:224-523: process_message from its first suspension to its end
RunMessage(t) ==
    /\ t.kind = "message" /\ t.phase = "waiting"
    /\ \E w \in {w \in Webhooks : w.MessageSid = t.key} :
          /\ Commit(process_message(w, {}))
          /\ tasks' = Finished(t, first(threads, "sender", w.From) = 0,
                                process_message(w, {}).out.branch)
    /\ UNCHANGED <<now, failures, reqs, lasso>>

\* main.py:525-617
RunWidget(t) ==
    /\ t.kind = "widget" /\ t.phase = "waiting"
    /\ Commit(process_web_widget_message("v1", "Hola", AiReply, {}))
    /\ tasks' = Finished(t, first(threads, "sender", "v1") = 0, "done")
    /\ UNCHANGED <<now, failures, reqs, lasso>>

\* execute_functions.py:323-483
RunCapture(t) ==
    /\ t.kind = "capture" /\ t.phase = "waiting"
    /\ \E customer_data \in {[nombre |-> t.key, telefono |-> "p1", fuente |-> "WhatsApp"]},
          remote \in {RemoteOf({})} :
          /\ customers' = capture_customer_info(customers, leads, threads,
                                                customer_data, remote).customers
          /\ leads' = capture_customer_info(customers, leads, threads,
                                            customer_data, remote).leads
          /\ ops' = Append(ops, LeadOp("capture", customer_data, leads'))
          /\ tasks' = Finished(t, first(customers, "telefono", "p1") = 0,
                IF capture_customer_info(customers, leads, threads,
                                         customer_data, remote).success
                THEN "success" ELSE "failure")
    /\ UNCHANGED <<now, message_buffer, threads, message_logs, conversations, messages,
                   outbox, submits, last, failures, reqs, lasso>>

\* execute_functions.py:486-690
RunQualify(t) ==
    /\ t.kind = "qualify" /\ t.phase = "waiting"
    /\ \E lead_data \in {[nombre |-> "Ana", telefono |-> "p1", fuente |-> "WhatsApp",
                           motivo |-> t.key]},
          remote \in {RemoteOf({})} :
          /\ customers' = qualify_lead(customers, leads, threads, lead_data,
                                       remote).customers
          /\ leads' = qualify_lead(customers, leads, threads, lead_data, remote).leads
          /\ ops' = Append(ops, LeadOp("qualify", lead_data, leads'))
          /\ tasks' = Finished(t, first(customers, "telefono", "p1") = 0,
                IF qualify_lead(customers, leads, threads, lead_data, remote).success
                THEN "success" ELSE "failure")
    /\ UNCHANGED <<now, message_buffer, threads, message_logs, conversations, messages,
                   outbox, submits, last, failures, reqs, lasso>>

NextConcurrent ==
    \/ \E d \in {1, DebounceWindow} : Tick(d)
    \/ \E kind \in DOMAIN TaskKeys : \E key \in TaskKeys[kind] : Arrive(kind, key)
    \/ \E t \in tasks : RunMessage(t)
    \/ \E t \in tasks : RunWidget(t)
    \/ \E t \in tasks : RunCapture(t)
    \/ \E t \in tasks : RunQualify(t)

SpecConcurrent == Init /\ [][NextConcurrent]_vars

-----------------------------------------------------------------------------
(* Properties of concurrent requests, under SpecConcurrent *)

Done(kinds) == {t \in tasks : t.phase = "done" /\ t.kind \in kinds}

RowsOf(table, col, value) == Cardinality(Matching(table, col, value))

C29_OneThreadPerSender ==
    \A sender \in Senders \cup Visitors : RowsOf(threads, "sender", sender) <= 1

C29_Witness ==
    \E t, u \in Done({"message", "widget"}) :
        /\ t # u /\ t.kind = u.kind
        /\ t.fresh /\ t.kind \in t.overlapped
        /\ ~u.fresh
        /\ u.result = "done"
        /\ \E sender \in Senders \cup Visitors : RowsOf(threads, "sender", sender) = 1

\* the submissions of p1 so far came at one time, with no buffer before
OneBurst ==
    /\ Len(submits) >= 1
    /\ \A j \in DOMAIN submits : submits[j].at = submits[1].at /\ submits[j].from = "p1"

\* C30: when requests of one sender submit at the same time and no buffer
\* exists, exactly one submission returns true, every other one is merged,
\* and the buffer holds every fragment, in the order of the submissions
C30_OneProcessesOthersMerge ==
    OneBurst =>
        /\ Cardinality({j \in DOMAIN submits : submits[j].should}) = 1
        /\ \A j \in DOMAIN submits : ~submits[j].should => submits[j].kind = "merged"
        /\ message_buffer["p1"].message_count = Len(submits)
        /\ \A j \in DOMAIN submits :
               Holds(message_buffer["p1"].message, submits[j].body)

C30_Witness ==
    /\ OneBurst
    /\ Len(submits) = 3
    /\ \E t \in Done({"message"}) : "message" \in t.overlapped
    /\ Cardinality({j \in DOMAIN submits : submits[j].should}) = 1
    /\ message_buffer["p1"].message_count = 3

-----------------------------------------------------------------------------
(* The debounce on its own: fragments of any length, short and long *)

\* utils.py:122-186, one call of get_debounced_message
Submit(whatsapp_number, body, message_sid) ==
    /\ reqs < MaxRequests
    /\ reqs' = reqs + 1
    /\ \E d \in {get_debounced_message(message_buffer, whatsapp_number, <<body>>,
                                        message_sid, now)} :
          /\ message_buffer' = d.buffer
          /\ submits' = Append(submits,
                 [from |-> whatsapp_number, body |-> body, sid |-> message_sid,
                  at |-> now, kind |-> d.kind, text |-> d.text, should |-> d.should,
                  final_sid |-> d.sid])
    /\ UNCHANGED <<now, threads, message_logs, conversations, messages, customers,
                   leads, outbox, ops, last, failures, lasso, tasks>>

NextDebounce ==
    \/ \E d \in {1, DebounceWindow} : Tick(d)
    \/ \E whatsapp_number \in {"p1"}, message_sid \in Sids,
          body \in {"Hola", "estas", "quiero comprar, es urgente"} :
           Submit(whatsapp_number, body, message_sid)

SpecDebounce == Init /\ [][NextDebounce]_vars

-----------------------------------------------------------------------------
(* Properties of the merge, under SpecDebounce *)

MergeStep ==
    /\ Len(submits') = Len(submits) + 1
    /\ submits'[Len(submits')].kind = "merged"

\* C31: a fragment that is merged into a buffer is appended after one space
\* when it has at most 10 characters and after a newline when it is longer,
\* whatever the length of the text that is buffered
C31_SeparatorByFragmentLength ==
    [][MergeStep =>
          LET e == submits'[Len(submits')] IN
          message_buffer'[e.from].message =
              message_buffer[e.from].message
                  \o <<IF BodyLen(e.body) <= ShortFragmentLen THEN " " ELSE "\n">>
                  \o <<e.body>>]_vars

-----------------------------------------------------------------------------
(* qualify_lead on its own, with every motive of the tool *)

\* single_ai_handler.py:143-163: the arguments of the tool qualify_lead, with
\* and without a name and an urgency; execute_functions.py:1110-1119: the
\* arguments that provide_contact_info passes
QualifyInputs ==
    { [k \in {"nombre", "telefono", "fuente", "motivo"} \cup opt |->
          CASE k = "nombre" -> nombre
            [] k = "telefono" -> "p1"
            [] k = "fuente" -> "WhatsApp"
            [] k = "motivo" -> motivo
            [] OTHER -> "inmediata"] :
        nombre \in {"Ana", "Luis", ""},
        motivo \in {"visita", "llamada", "informacion", "otro"},
        opt \in SUBSET {"urgencia"} }
    \cup { ContactLead([nombre |-> "Ana", telefono |-> "p1", motivo |-> "llamada"]) }

\* execute_functions.py:266-268, 1123: one call of qualify_lead
QualifyCall(lead_data) ==
    /\ Len(ops) < MaxLeadOps
    /\ \E r \in {qualify_lead(customers, leads, threads, lead_data, RemoteOf({}))} :
          /\ customers' = r.customers
          /\ leads' = r.leads
          /\ ops' = Append(ops, LeadOp("qualify", lead_data, r.leads))
          /\ last' = [op |-> "qualify", lead_data |-> lead_data,
                      existed |-> Identify(leads, lead_data) # 0,
                      success |-> r.success]
    /\ UNCHANGED <<now, message_buffer, threads, message_logs, conversations, messages,
                   outbox, submits, failures, reqs, lasso, tasks>>

NextQualify ==
    \/ \E lead_data \in QualifyInputs : QualifyCall(lead_data)
    \/ \E w \in {w \in LeadMessages : w.From = "p1"} : Nurture(w, RemoteOf({}))

SpecQualify == Init /\ [][NextQualify]_vars

-----------------------------------------------------------------------------
(* Properties of qualify_lead, under SpecQualify *)

\* a call of qualify_lead that found a lead for the phone
UpdateStep ==
    /\ Len(ops') = Len(ops) + 1
    /\ ops'[Len(ops')].op = "qualify"
    /\ last'.existed

\* the row of the lead of p1
LeadOfP1(lds) == lds[first(lds, "telefono", "p1")]

Given(data, key) == ~Empty(DictGetOr(data, key, Null))

\* C32: qualify_lead on an existing lead overwrites the fields its input
\* carries and leaves the other fields of the lead as they were; the name
\* is not changed by an input without a name
C32_AbsentFieldsKept ==
    [][UpdateStep =>
          LET data == last'.lead_data
              before == LeadOfP1(leads)
              after == LeadOfP1(leads')
          IN /\ Given(data, "motivo") => after.motivo_interes = data.motivo
             /\ Given(data, "urgencia") => after.urgencia_compra = data.urgencia
             /\ ~Given(data, "nombre") => after.nombre = before.nombre
             /\ ~Given(data, "urgencia") => after.urgencia_compra = before.urgencia_compra
             /\ ~Given(data, "email") => after.email = before.email]_vars

Stored(lead) ==
    <<lead.motivo_interes, lead.urgencia_compra, lead.desea_visita, lead.desea_llamada,
      lead.desea_informacion>>

\* C40: the motive, the urgency and the flags that qualify_lead stores do
\* not depend on whether the lead existed: after a call that created the
\* lead, the same input as an update stores the same values
C40_CreateStoresAsUpdate ==
    (last.op = "qualify" /\ last.success /\ ~last.existed) =>
        Stored(LeadOfP1(qualify_lead(customers, leads, threads, last.lead_data,
                                     RemoteOf({})).leads))
            = Stored(LeadOfP1(leads))

-----------------------------------------------------------------------------
(* Properties of the budget of capture_customer_info, under SpecPhone *)

Millions(run) == int(run) * Million

\* C34: a budget text without an integer leaves both budget fields unset,
\* exactly one integer n sets only presupuesto_max to n * 1,000,000, and two
\* integers a, b set presupuesto_min to a * 1,000,000 and presupuesto_max to
\* b * 1,000,000; the field presupuesto itself is not stored
C34_BudgetFromText ==
    last.op = "presupuesto" =>
        /\ "presupuesto" \notin DOMAIN last.customer
        /\ Len(last.numbers) = 0 => last.customer = EmptyDict
        /\ Len(last.numbers) = 1 =>
               last.customer = [presupuesto_max |-> Millions(last.numbers[1])]
        /\ Len(last.numbers) = 2 =>
               last.customer = [presupuesto_min |-> Millions(last.numbers[1]),
                                presupuesto_max |-> Millions(last.numbers[2])]

-----------------------------------------------------------------------------
(* Properties of the sends of a photo and of the location, under SpecExecute *)

\* C35: enviar_foto and send_yucatan_location report success only when the
\* provider returned the id of the message, and the id is part of the
\* result; when the send fails they return a result with success false and
\* an error, and they do not raise
C35_SuccessCarriesDeliveryId ==
    (last.op = "execute"
     /\ last.function_name \in {"enviar_foto", "send_yucatan_location"}) =>
        /\ ~last.raised
        /\ last.result.success = "True" => last.message_sid = "sid"
        /\ last.send \in {"none", "raise"} =>
               /\ last.result.success = "False"
               /\ last.result.text = "error"

-----------------------------------------------------------------------------
(* Properties of the rating of a lead, under SpecLead *)

\* C36: in every reachable state every qualified lead has a rating among
\* cold, initial, warm and hot, whether the nurture of a message,
\* capture_customer_info or qualify_lead created it
C36_EveryLeadRated ==
    \A i \in DOMAIN leads : leads[i].lead_rating \in {"cold", "initial", "warm", "hot"}

-----------------------------------------------------------------------------
(* Properties of the result of one injection, under SpecCrm *)

\* C37: inject_lead_to_property reports success only when the request that
\* creates the registrant, or updates the one that was found, succeeded; a
\* create or an update that the CRM refuses or that is not delivered gives
\* success false with an error in the result
C37_SuccessOnlyAfterRemoteSuccess ==
    (last.op = "inject" /\ last.path \in {"create", "update"}) =>
        /\ last.success = TRUE => last.net.write = "ok"
        /\ last.net.write # "ok" => (last.success = FALSE /\ last.error # Null)

-----------------------------------------------------------------------------
(* Properties of the property of a lead of the nurture, under SpecPhone *)

\* C38: for every property key that the nurture of a message records on a
\* lead (yucatan, valle_de_guadalupe, costalegre, mar_de_cortes), in
\* proyecto_interes and in ciudad_interes, _determine_property_from_lead
\* returns that key, and the key is one of PROPERTY_MAPPING
C38_DetectedPropertyIsInjected ==
    LET recorded == { PropertyInterest({word}) :
                        word \in {"yucatan", "vino", "jalisco", "cortes", "hola"} }
    IN (/\ last.op = "determine"
        /\ last.proyecto_interes \in recorded
        /\ last.ciudad_interes = last.proyecto_interes) =>
           /\ last.property_key = last.proyecto_interes
           /\ last.property_key \in PROPERTY_MAPPING

-----------------------------------------------------------------------------
(* Properties of the identity of a caller on WhatsApp, under SpecExecute *)

\* main.py:250-251: the caller context of a message of p1
OwnContext == [number |-> "p1", platform |-> "WhatsApp"]

\* The rows of a table that a call added or changed.
Written(before, after) ==
    { after[i] : i \in { j \in DOMAIN after : j > Len(before) \/ after[j] # before[j] } }

\* C39: with the caller context of a sender on WhatsApp,
\* capture_customer_info, qualify_lead and provide_contact_info use the
\* number of the sender as the identity: two dispatches that differ only in
\* the phone inside the arguments return the same result and leave the same
\* customers and leads, and no row of another phone is written
C39_IdentityIsTheSender ==
    \A f \in {"capture_customer_info", "qualify_lead", "provide_contact_info"},
       env \in { e \in ExecuteSurroundings : e.send = "sid" } :
        \A own \in { execute_function([function_name |-> f, arguments |-> a],
                                       OwnContext, customers, leads, threads, env) :
                        a \in { t \in ObjectTexts :
                                  /\ "telefono" \notin DOMAIN ObjectOf(t)
                                  /\ "nombre" \in DOMAIN ObjectOf(t) } },
           other \in { execute_function([function_name |-> f, arguments |-> a],
                                         OwnContext, customers, leads, threads, env) :
                          a \in { t \in ObjectTexts :
                                    /\ "telefono" \in DOMAIN ObjectOf(t)
                                    /\ "nombre" \in DOMAIN ObjectOf(t) } } :
            /\ other.result = own.result
            /\ other.customers = own.customers
            /\ other.leads = own.leads
            /\ \A row \in Written(customers, other.customers)
                            \cup Written(leads, other.leads) :
                  row.telefono = OwnContext.number

\* A call of p1 on WhatsApp whose arguments name the phone p2, in a state
\* where p2 has a customer and a lead: the rows of p1 are written and those
\* of p2 are as before.
C39_Witness ==
    /\ last.op = "execute" /\ last.sender_info = OwnContext
    /\ last.function_name \in {"capture_customer_info", "qualify_lead",
                                "provide_contact_info"}
    /\ last.telefono = "p2"
    /\ RowsOf(customers, "telefono", "p2") = 1 /\ RowsOf(leads, "telefono", "p2") = 1
    /\ RowsOf(customers, "telefono", "p1") = 1 /\ RowsOf(leads, "telefono", "p1") = 1

====
